---- MODULE Spec2Model ----
(***************************************************************************)
(* A model of the APC mini mk2 controller: LedController                   *)
(* (src/midiakaicontroller/led_controller.py) and the press-behaviour      *)
(* handlers of Dashboard (src/midiakaicontroller/dashboard.py).            *)
(*                                                                         *)
(* Spec           the controller and the dashboard handlers, one handler   *)
(*                at a time (each action is one whole call on a connected  *)
(*                controller).                                             *)
(* SchedulerSpec  start_animation, stop_animation and the animation        *)
(*                threads, in time: join(timeout=1.0) against the sleeps   *)
(*                of the routines.                                         *)
(* WritersSpec    set_pad_color entered from several contexts at once,     *)
(*                its store and its send as separate steps.                *)
(* ReaderSpec     the reader thread (_handle_input): inbound messages,     *)
(*                the loopback port and the registered observers, any of   *)
(*                which can raise.  ReaderLiveSpec adds the fairness of    *)
(*                the reader thread.                                       *)
(* LifecycleSpec  the link from before __init__ to after cleanup: opens    *)
(*                and closes that can raise, the reader against closed     *)
(*                ports, writes after the close.  LifecycleLiveSpec adds   *)
(*                the fairness of the reader and of a cleanup under way.   *)
(* SchedulerLiveSpec  SchedulerSpec with its threads scheduled and time    *)
(*                passing.                                                 *)
(* CombinedSpec   the caller, the routines' threads and an observer on the *)
(*                reader's context that starts and stops animations and    *)
(*                writes a pad.  CombinedLiveSpec adds the fairness.       *)
(* PressSpec      presses of one Toggle button handled on the reader's and *)
(*                on the GUI's thread, statement by statement.             *)
(* GridSpec       the conversions between notes and grid positions.        *)
(* ClosingSpec    cleanup() called while routines run.                     *)
(* ChaseSpec, RainSpec, SnakeSpec                                          *)
(*                one routine's thread, its writes applied to the store    *)
(*                and the device.                                          *)
(***************************************************************************)
EXTENDS Integers, Sequences, FiniteSets, TLC

VARIABLES
    led_states,      \* LedController.led_states: note -> LedState
    device,          \* what the output port was last sent per note: note -> [velocity, channel]
    toggle_states,   \* Dashboard.toggle_states: note -> BOOLEAN
    buttons,         \* Dashboard.buttons: note -> the LedButton's behaviour attributes
    last,            \* the call that ran last: its name, arguments, result and messages
    pair,            \* the run of consecutive presses on one Toggle control
    animation_running,  \* LedController.animation_running
    animation_thread,   \* LedController.animation_thread: 0 (None) or a thread
    threads,         \* the animation threads started so far: id -> its position
    caller,          \* the context calling start_animation / stop_animation
    writers,         \* the contexts inside set_pad_color: context -> its position
    running,         \* LedController.running
    loopback_port,   \* LedController.loopback_port: TRUE (an open port) or FALSE (None)
    button_callbacks,  \* LedController.button_callbacks, in registration order
    input_port,      \* the inbound messages the input port holds, oldest first
    input_thread,    \* LedController.input_thread: the reader's position in _handle_input
    history,         \* what the reader has done so far, in order
    ports,           \* input_port and output_port: "unset" (no attribute), "open" or "none"
    lifecycle,       \* the last call of __init__ or cleanup and how it went
    reader_call,     \* the start/stop_animation call an observer makes on the reader's context
    presses,         \* the presses of a Toggle button since its bit was reset, and their handlers
    grid,            \* the last conversion between a note and its (row, col)
    routine          \* the animation routine that runs: its position and its locals

engine == <<led_states, device, toggle_states, buttons, last, pair>>

scheduler == <<animation_running, animation_thread, threads, caller>>

link == <<running, loopback_port, button_callbacks, input_port, input_thread, history>>

\* the state added for the lifecycle, the combined system and the grid
extra == <<ports, lifecycle, reader_call, presses, grid, routine>>

others == <<scheduler, writers, link, extra>>

vars == <<engine, scheduler, writers, link, extra>>

(***************************************************************************)
(* Enumerations of led_controller.py                                       *)
(***************************************************************************)
PadColor ==
    [ OFF |-> 0, DIM |-> 1, GRAY |-> 2, WHITE |-> 3,
      LIGHT_RED |-> 4, RED |-> 5, DARK_RED |-> 6, VERY_DARK_RED |-> 7,
      LIGHT_ORANGE |-> 8, ORANGE |-> 9, DARK_ORANGE |-> 10, BROWN |-> 11,
      LIGHT_YELLOW |-> 12, YELLOW |-> 13, DARK_YELLOW |-> 14, VERY_DARK_YELLOW |-> 15,
      LIGHT_LIME |-> 16, LIME |-> 17, DARK_LIME |-> 18, VERY_DARK_LIME |-> 19,
      LIGHT_GREEN |-> 20, GREEN |-> 21, DARK_GREEN |-> 22, VERY_DARK_GREEN |-> 23,
      LIGHT_BLUE |-> 44, BLUE |-> 45, DARK_BLUE |-> 46, VERY_DARK_BLUE |-> 47 ]

Pads == 0 .. 63

TrackNotes == 100 .. 107

SceneNotes == 112 .. 119

\* ButtonType, in the enumeration's order (TRACK_1 .. TRACK_8, SCENE_1 .. SCENE_8)
ButtonType == [i \in 1 .. 16 |-> IF i <= 8 THEN 99 + i ELSE 103 + i]

ButtonNotes == {ButtonType[i] : i \in DOMAIN ButtonType}

\* 0x64 <= note <= 0x6B or 0x70 <= note <= 0x77
IsTrackOrScene(note) == (100 <= note /\ note <= 107) \/ (112 <= note /\ note <= 119)

LedState(color) == [color |-> color, behavior |-> "SOLID", is_on |-> TRUE]

Msg(note, velocity, channel) ==
    [type |-> "note_on", note |-> note, velocity |-> velocity, channel |-> channel]

Put(f, k, v) == [x \in DOMAIN f \cup {k} |-> IF x = k THEN v ELSE f[x]]

Empty == [x \in {} |-> 0]

(***************************************************************************)
(* LedController's writes, as functions of the controller's state          *)
(* st = [led_states, device, output, out, err]: output is the state of     *)
(* self.output_port, out collects the messages the call sends, err is the  *)
(* exception it raises ("" for none).                                      *)
(***************************************************************************)
\* self.output_port.send(msg) whatever self.output_port is
send_unchecked(st, msg) ==
    [st EXCEPT !.device = Put(@, msg.note, [velocity |-> msg.velocity, channel |-> msg.channel]),
               !.out = Append(@, msg)]

\* self.output_port.send(msg): after cleanup self.output_port is None and
\* the attribute access raises; nothing reaches the device
send(st, msg) ==
    IF st.output # "open"
    THEN [st EXCEPT !.err = "AttributeError"]
    ELSE [st EXCEPT !.device = Put(@, msg.note, [velocity |-> msg.velocity, channel |-> msg.channel]),
                    !.out = Append(@, msg)]

\* the default of set_pad_color's channel parameter
DefaultChannel == 6

\* set_pad_color with the entry replaced before the channel is validated
set_pad_color_store_first(st, note, color, channel) ==
    LET stored == [st EXCEPT !.led_states = Put(@, note, LedState(color))]
    IN IF ~(0 <= channel /\ channel <= 15)
       THEN [stored EXCEPT !.err = "ValueError"]
       ELSE send(stored, Msg(note, PadColor[color], channel))

\* set_pad_color sending on the default channel whatever channel it is given
set_pad_color_default_channel(st, note, color, channel) ==
    IF ~(0 <= channel /\ channel <= 15)
    THEN [st EXCEPT !.err = "ValueError"]
    ELSE send([st EXCEPT !.led_states = Put(@, note, LedState(color))],
              Msg(note, PadColor[color], DefaultChannel))

\* set_pad_color sending first and replacing the entry once the send has
\* returned
set_pad_color_send_first(st, note, color, channel) ==
    IF ~(0 <= channel /\ channel <= 15)
    THEN [st EXCEPT !.err = "ValueError"]
    ELSE LET sent == send(st, Msg(note, PadColor[color], channel))
         IN IF sent.err # ""
            THEN sent
            ELSE [sent EXCEPT !.led_states = Put(@, note, LedState(color))]

set_pad_color(st, note, color, channel) ==
    IF ~(0 <= channel /\ channel <= 15)
    THEN [st EXCEPT !.err = "ValueError"]
    ELSE send([st EXCEPT !.led_states = Put(@, note, LedState(color))],
              Msg(note, PadColor[color], channel))

\* set_button_color sending on the pads' default channel
set_button_color_pad_channel(st, button, velocity) ==
    send(st, Msg(button, velocity, DefaultChannel))

set_button_color(st, button, velocity) ==
    send(st, Msg(button, velocity, 0))

\* clear_all(): set_pad_color(note, PadColor.OFF) for note in range(64), then
\* set_button_color(button, False) for button in ButtonType.  The two loops
\* are written out as their combined effect: every pad's entry and message,
\* then every button's message, in the loops' order.  Without an open output
\* port the first set_pad_color raises and ends the call.
clear_all(st) ==
    IF st.output # "open"
    THEN send([st EXCEPT !.led_states = Put(@, 0, LedState("OFF"))],
              Msg(0, PadColor["OFF"], DefaultChannel))
    ELSE
    LET sent == [note \in Pads \cup ButtonNotes |->
                   IF note \in Pads
                   THEN [velocity |-> PadColor["OFF"], channel |-> DefaultChannel]
                   ELSE [velocity |-> 0, channel |-> 0]]
    IN [st EXCEPT
          !.led_states = [note \in DOMAIN st.led_states \cup Pads |->
                            IF note \in Pads THEN LedState("OFF") ELSE st.led_states[note]],
          !.device = [note \in DOMAIN st.device \cup DOMAIN sent |->
                        IF note \in DOMAIN sent THEN sent[note] ELSE st.device[note]],
          !.out = st.out
                  \o [i \in 1 .. 64 |-> Msg(i - 1, PadColor["OFF"], DefaultChannel)]
                  \o [i \in 1 .. 16 |-> Msg(ButtonType[i], 0, 0)]]

Ctl == [led_states |-> led_states, device |-> device, output |-> ports.output,
        out |-> <<>>, err |-> ""]

(***************************************************************************)
(* Dashboard: the options of the behaviour combo boxes                     *)
(***************************************************************************)
\* pressed_animation_combo / unpressed_animation_combo
behavior_animations ==
    << "Statisch",
       "Pulsieren 1/16", "Pulsieren 1/8", "Pulsieren 1/4", "Pulsieren 1/2",
       "Blinken 1/24", "Blinken 1/16", "Blinken 1/8", "Blinken 1/4", "Blinken 1/2" >>

\* animation_combo: index 0 is "Statisch", 1..4 "Pulsieren ... (Kanal 7..10)",
\* 5..9 "Blinken ... (Kanal 11..15)"; the handlers read its index and two
\* facts about its text.
animation_options == 0 .. 9

StartsWithStatisch(index) == index = 0

\* "Blinken" in text, for the text of a behaviour animation
ContainsBlinken(text) ==
    \E i \in 6 .. 10 : behavior_animations[i] = text

\* "Blinken" in animation_combo.currentText()
ComboContainsBlinken(index) == index \in 5 .. 9

get_animation_channel(animation_text) ==
    IF animation_text = "Statisch" THEN 6
    ELSE CASE animation_text = "Pulsieren 1/16" -> 7
           [] animation_text = "Pulsieren 1/8"  -> 8
           [] animation_text = "Pulsieren 1/4"  -> 9
           [] animation_text = "Pulsieren 1/2"  -> 10
           [] animation_text = "Blinken 1/24"   -> 11
           [] animation_text = "Blinken 1/16"   -> 12
           [] animation_text = "Blinken 1/8"    -> 13
           [] animation_text = "Blinken 1/4"    -> 14
           [] animation_text = "Blinken 1/2"    -> 15
           [] OTHER -> 6

\* LedButton.__init__: the behaviour attributes of a new button
LedButton ==
    [ press_behavior_enabled |-> FALSE,
      button_mode |-> "Toggle",
      pressed_animation |-> "Statisch",
      unpressed_animation |-> "Statisch",
      pressed_color |-> "RED",
      unpressed_color |-> "OFF",
      pressed_brightness |-> "unset",
      unpressed_brightness |-> "unset" ]

\* self.buttons[note]: the map holds the buttons whose attributes have been
\* set since construction; every other button has the constructor's
button_of(note) == IF note \in DOMAIN buttons THEN buttons[note] ELSE LedButton

\* self.toggle_states.get(note, False)
toggle_get(ts, note) == IF note \in DOMAIN ts THEN ts[note] ELSE FALSE

\* the channel of the unpressed state the configuration branch paints
\* (on_button_click: brightness for "Statisch", else the animation's channel)
initial_channel(animation, brightness) ==
    IF animation = "Statisch" THEN brightness ELSE get_animation_channel(animation)

\* the velocity a Track/Scene button is sent when it goes on
\* the on-velocity without the blink marker's test
on_velocity_solid(animation) == 1

on_velocity(animation) == IF ContainsBlinken(animation) THEN 2 ELSE 1

\* the channel of the global selection (color picker path)
global_channel(gui) ==
    IF StartsWithStatisch(gui.animation) THEN gui.brightness
    ELSE 7 + gui.animation - 1

(***************************************************************************)
(* The environment's inputs                                                *)
(***************************************************************************)
\* the controls the environment clicks and presses: one pad and one Track
\* button
Controls == {0, 100}

\* the pads and buttons a caller writes directly
WrittenPads == {0}

WrittenButtons == {100}

\* a note of the device that is no LedButton (the shift button)
OtherNotes == {122}

\* the colors a caller writes directly
Palette == {"RED", "BLUE"}

\* channels a direct caller passes: the valid range's ends and the first
\* value outside on each side
Channels == {-1, 0, 15, 16}

\* what the behaviour widgets select when a control is configured
BehaviorChoices ==
    { [ button_mode |-> "Toggle",
        pressed_color |-> "RED", pressed_animation |-> "Statisch",
        pressed_brightness |-> 2,
        unpressed_color |-> "GREEN", unpressed_animation |-> "Statisch",
        unpressed_brightness |-> 3 ],
      [ button_mode |-> "Toggle",
        pressed_color |-> "BLUE", pressed_animation |-> "Blinken 1/2",
        pressed_brightness |-> 6,
        unpressed_color |-> "OFF", unpressed_animation |-> "Statisch",
        unpressed_brightness |-> 6 ],
      [ button_mode |-> "Flash",
        pressed_color |-> "RED", pressed_animation |-> "Statisch",
        pressed_brightness |-> 2,
        unpressed_color |-> "GREEN", unpressed_animation |-> "Pulsieren 1/4",
        unpressed_brightness |-> 6 ] }

\* what the global color, brightness and animation combo boxes select
GlobalChoices ==
    { [color |-> "OFF", brightness |-> 6, animation |-> 0],
      [color |-> "RED", brightness |-> 2, animation |-> 0],
      [color |-> "RED", brightness |-> 6, animation |-> 5] }

\* the state of the dashboard's widgets when on_button_click runs: the
\* press-behaviour button, the behaviour widgets and the global combo boxes
Gui(c, b, g) ==
    [ checked |-> c, button_mode |-> b.button_mode,
      pressed_color |-> b.pressed_color, pressed_animation |-> b.pressed_animation,
      pressed_brightness |-> b.pressed_brightness,
      unpressed_color |-> b.unpressed_color,
      unpressed_animation |-> b.unpressed_animation,
      unpressed_brightness |-> b.unpressed_brightness,
      color |-> g.color, brightness |-> g.brightness, animation |-> g.animation ]

\* the widgets as setup_ui leaves them: every combo box on its first item,
\* the brightness boxes on index 6
BehaviorDefault ==
    [ button_mode |-> "Flash",
      pressed_color |-> "OFF", pressed_animation |-> "Statisch", pressed_brightness |-> 6,
      unpressed_color |-> "OFF", unpressed_animation |-> "Statisch",
      unpressed_brightness |-> 6 ]

GlobalDefault == [color |-> "OFF", brightness |-> 6, animation |-> 0]

\* with the press-behaviour button checked the handler reads the behaviour
\* widgets only, otherwise the global combo boxes only: the widgets it does
\* not read stay as setup_ui left them
GuiStates ==
    {Gui(TRUE, b, GlobalDefault) : b \in BehaviorChoices}
    \cup {Gui(FALSE, BehaviorDefault, g) : g \in GlobalChoices}

(***************************************************************************)
(* Ghost state: the last call and the run of presses on a Toggle control   *)
(***************************************************************************)
NotSent == [velocity |-> -1, channel |-> -1]

Shown(dev, note) == IF note \in DOMAIN dev THEN dev[note] ELSE NotSent

\* the record of a call: its name, the control, the event's type, whether
\* the press-behaviour button was checked, the control's toggle bit before
\* the call, the arguments of a direct write, whether the call before was
\* on_clear_all, the state of the output port, and the messages sent and the
\* exception raised
Call(op, note, type, checked, bit, args, after_clear, st) ==
    [op |-> op, note |-> note, type |-> type, checked |-> checked, bit |-> bit,
     args |-> args, after_clear |-> after_clear, output |-> st.output,
     out |-> st.out, err |-> st.err]

NoPair == [note |-> -1, count |-> 0, before |-> NotSent]

\* The run of presses on a control in Toggle mode.  Configuring a control
\* paints it and opens a run on it (count 0); a press on it continues the run,
\* recording at the first press what the control showed; a call that sends
\* nothing (a release, an ignored event) leaves the run as it is; every other
\* call writes to the device and ends the run.
PairAfter(configuring, togglePress, note, out) ==
    IF configuring THEN [note |-> note, count |-> 0, before |-> NotSent]
    ELSE IF togglePress
    THEN IF pair.note # note THEN NoPair
         ELSE IF pair.count = 1 THEN [pair EXCEPT !.count = 2]
         ELSE [note |-> note, count |-> 1, before |-> Shown(device, note)]
    ELSE IF out = <<>> THEN pair
    ELSE NoPair

IsToggleControl(note) ==
    button_of(note).press_behavior_enabled /\ button_of(note).button_mode = "Toggle"

(***************************************************************************)
(* The press handlers' branches                                            *)
(***************************************************************************)
\* Toggle, Track/Scene button: flip the bit, send 2/1 or 0
toggle_button(st, ts, note) ==
    LET ts2 == Put(ts, note, ~toggle_get(ts, note))
        velocity == IF ts2[note] THEN on_velocity(button_of(note).pressed_animation) ELSE 0
    IN [st |-> set_button_color(st, note, velocity), ts |-> ts2]

\* Toggle, pad: flip the bit, write the pressed or the unpressed color
toggle_pad(st, ts, note) ==
    LET ts2 == Put(ts, note, ~toggle_get(ts, note))
        color == IF ts2[note] THEN button_of(note).pressed_color
                 ELSE button_of(note).unpressed_color
        channel == IF ts2[note] THEN get_animation_channel(button_of(note).pressed_animation)
                   ELSE get_animation_channel(button_of(note).unpressed_animation)
    IN [st |-> set_pad_color(st, note, color, channel), ts |-> ts2]

\* handle_midi_input without the test of press_behavior_enabled: a press
\* toggles whatever control it arrives on
handle_midi_input_unguarded(st, ts, type, note) ==
    IF type = "note_on" /\ note \in Pads \cup ButtonNotes
    THEN IF IsTrackOrScene(note) THEN toggle_button(st, ts, note)
         ELSE toggle_pad(st, ts, note)
    ELSE [st |-> st, ts |-> ts]

\* Dashboard.handle_midi_input(msg), as a function of the state
handle_midi_input(st, ts, type, note) ==
    IF ~(type \in {"note_on", "note_off"}) \/ ~(note \in Pads \cup ButtonNotes)
    THEN [st |-> st, ts |-> ts]
    ELSE IF ~button_of(note).press_behavior_enabled
    THEN [st |-> st, ts |-> ts]
    ELSE IF IsTrackOrScene(note)
    THEN IF button_of(note).button_mode = "Toggle"
         THEN IF type = "note_on" THEN toggle_button(st, ts, note)
              ELSE [st |-> st, ts |-> ts]
         ELSE [st |-> set_button_color(st, note,
                        IF type = "note_on"
                        THEN on_velocity(button_of(note).pressed_animation) ELSE 0),
               ts |-> ts]
    ELSE IF button_of(note).button_mode = "Toggle"
         THEN IF type = "note_on" THEN toggle_pad(st, ts, note)
              ELSE [st |-> st, ts |-> ts]
         ELSE [st |-> IF type = "note_on"
                      THEN set_pad_color(st, note, button_of(note).pressed_color,
                               get_animation_channel(button_of(note).pressed_animation))
                      ELSE set_pad_color(st, note, button_of(note).unpressed_color,
                               get_animation_channel(button_of(note).unpressed_animation)),
               ts |-> ts]

\* Dashboard.on_button_click(note) with the press-behaviour button checked:
\* the control takes the selected behaviour and shows its unpressed state
configure(st, ts, note, gui) ==
    LET st2 == IF ~IsTrackOrScene(note)
               THEN set_pad_color(st, note, gui.unpressed_color,
                        initial_channel(gui.unpressed_animation, gui.unpressed_brightness))
               ELSE set_button_color(st, note, 0)
    IN [st |-> st2,
        ts |-> IF gui.button_mode = "Toggle" THEN Put(ts, note, FALSE) ELSE ts]

configured(gui) ==
    [ press_behavior_enabled |-> TRUE,
      button_mode |-> gui.button_mode,
      pressed_animation |-> gui.pressed_animation,
      unpressed_animation |-> gui.unpressed_animation,
      pressed_color |-> gui.pressed_color,
      unpressed_color |-> gui.unpressed_color,
      pressed_brightness |-> gui.pressed_brightness,
      unpressed_brightness |-> gui.unpressed_brightness ]

\* Dashboard.on_button_click(note) otherwise: a synthetic press
click(st, ts, note, gui) ==
    IF IsTrackOrScene(note)
    THEN IF button_of(note).press_behavior_enabled
         THEN IF button_of(note).button_mode = "Toggle"
              THEN toggle_button(st, ts, note)
              ELSE [st |-> set_button_color(st, note,
                             on_velocity(button_of(note).pressed_animation)),
                    ts |-> ts]
         ELSE [st |-> set_button_color(st, note,
                        IF gui.color = "OFF" THEN 0
                        ELSE IF ComboContainsBlinken(gui.animation) THEN 2 ELSE 1),
               ts |-> ts]
    ELSE IF button_of(note).press_behavior_enabled
         THEN IF button_of(note).button_mode = "Toggle"
              THEN toggle_pad(st, ts, note)
              ELSE [st |-> set_pad_color(st, note, button_of(note).pressed_color,
                             get_animation_channel(button_of(note).pressed_animation)),
                    ts |-> ts]
         ELSE [st |-> set_pad_color(st, note, gui.color, global_channel(gui)),
               ts |-> ts]

(***************************************************************************)
(* The animation scheduler (start_animation, stop_animation and the        *)
(* routines' threads), in time.  Durations are in units of 0.05 s.  *)
(* A routine is the sequence of the steps of one pass of its outer loop:   *)
(* "check" reads animation_running and leaves the routine when it is       *)
(* false, "write" is the LED writes between two sleeps, "sleep" is         *)
(* time.sleep.  After the last step the routine is back at its first.      *)
(***************************************************************************)
check == [op |-> "check", d |-> 0]

write == [op |-> "write", d |-> 0]

sleep(d) == [op |-> "sleep", d |-> d]

RECURSIVE Times(_, _)
Times(n, steps) == IF n = 0 THEN <<>> ELSE steps \o Times(n - 1, steps)

\* while running: draw the head and its tail, clear the old position, sleep
_chase_animation == <<check, write, sleep(1)>>

\* while running: the rising streak (8 rows), the burst (5 rings), the fade
_firework_animation ==
    <<check>>
    \o Times(8, <<write, sleep(1), write>>)
    \o Times(5, <<write, sleep(1)>>)
    \o <<sleep(4), write, sleep(6)>>

\* while running: for each of 4 colors, 8 columns (each after a check of the
\* flag), then a check and a pause
_color_wipe_animation ==
    <<check>>
    \o Times(4, Times(8, <<check, write, sleep(1)>>) \o <<check, sleep(10)>>)

\* while running: for each of 12 offsets, the 64 pads and a frame delay
_wave_animation ==
    <<check>>
    \o Times(12, <<write, sleep(1)>>)

\* _run_animation's table, for the routines modelled
animations ==
    [ CHASE |-> _chase_animation,
      FIREWORK |-> _firework_animation,
      COLOR_WIPE |-> _color_wipe_animation,
      WAVE |-> _wave_animation ]

AnimationType == DOMAIN animations

\* animation_thread.join(timeout=1.0): 20 units of 0.05 s
JoinTimeout == 20

\* the number of animation threads the caller starts
MaxThreads == 2

\* a context that is in neither start_animation nor stop_animation; thread is
\* the thread a join waits for
Idle(returned) ==
    [pc |-> "idle", arg |-> "", timer |-> 0, returned |-> returned, thread |-> 0]

Finished == [routine |-> "", pc |-> 0, sleep |-> 0, alive |-> FALSE]

is_alive(t) == t \in DOMAIN threads /\ threads[t].alive

Alive == {t \in DOMAIN threads : threads[t].alive}

Instr(t) == animations[threads[t].routine][threads[t].pc]

NextPc(t) == IF threads[t].pc = Len(animations[threads[t].routine]) THEN 1
             ELSE threads[t].pc + 1

\* the frame delays a routine's thread has begun since it last read
\* animation_running (none when it is about to read it)
FramesSinceCheck(t) ==
    LET steps == animations[threads[t].routine]
        pc == threads[t].pc
        checked == CHOOSE j \in 0 .. pc - 1 :
                      /\ j > 0 => steps[j].op = "check"
                      /\ \A k \in j + 1 .. pc - 1 : steps[k].op # "check"
    IN IF steps[pc].op = "check" THEN 0
       ELSE Cardinality({k \in checked + 1 .. pc - 1 : steps[k].op = "sleep"})

\* self.animation_running = True and
\* threading.Thread(target=self._run_animation, args=(animation_type,)).start()
SpawnThread(animation_type) ==
    LET t == Cardinality(DOMAIN threads) + 1
    IN /\ animation_running' = TRUE
       /\ threads' = Put(threads, t,
                         [routine |-> animation_type, pc |-> 1, sleep |-> 0, alive |-> TRUE])
       /\ animation_thread' = t

\* the end of the caller's start_animation
Spawn(animation_type) ==
    /\ SpawnThread(animation_type)
    /\ caller' = Idle("start_animation")

\* the calls of start_animation that have still to start their thread
Starting ==
    (IF caller.pc = "start_join" THEN 1 ELSE 0)
    + (IF reader_call.pc = "start_join" THEN 1 ELSE 0)

\* start_animation(animation_type) called by a context (who, and after the
\* step who_next), up to the join inside stop_animation or, with no live
\* thread, to its end
start_animation(who, who_next, animation_type) ==
    /\ who.pc = "idle"
    /\ Cardinality(DOMAIN threads) + Starting < MaxThreads
    /\ IF animation_thread # 0 /\ is_alive(animation_thread)
       THEN /\ animation_running' = FALSE
            /\ who_next = [pc |-> "start_join", arg |-> animation_type,
                           timer |-> JoinTimeout, returned |-> who.returned,
                           thread |-> animation_thread]
            /\ UNCHANGED <<animation_thread, threads>>
       ELSE /\ SpawnThread(animation_type)
            /\ who_next = Idle("start_animation")

\* stop_animation() called by a context, up to its join or, with no thread,
\* to its end
stop_animation(who, who_next) ==
    /\ who.pc = "idle"
    /\ animation_running' = FALSE
    /\ who_next = IF animation_thread # 0
                  THEN [pc |-> "stop_join", arg |-> "", timer |-> JoinTimeout,
                        returned |-> who.returned, thread |-> animation_thread]
                  ELSE Idle("stop_animation")
    /\ UNCHANGED <<animation_thread, threads>>

\* the context waits in animation_thread.join(timeout=1.0)
Joining(who) == who.pc \in {"start_join", "stop_join"}

\* join(): without a timeout
JoinOver_untimed(who) == Joining(who) /\ ~is_alive(who.thread)

\* the join of stop_animation without a timeout when stop_animation is
\* called directly
JoinOver_stop_untimed(who) ==
    Joining(who) /\ (~is_alive(who.thread) \/ (who.pc = "start_join" /\ who.timer <= 0))

\* join returns: the thread has ended, or the timeout has passed
JoinOver(who) == Joining(who) /\ (~is_alive(who.thread) \/ who.timer = 0)

\* the statements after the join: start_animation starts the new thread,
\* stop_animation returns
join_return(who, who_next) ==
    /\ JoinOver(who)
    /\ IF who.pc = "start_join"
       THEN /\ SpawnThread(who.arg)
            /\ who_next = Idle("start_animation")
       ELSE /\ who_next = Idle("stop_animation")
            /\ UNCHANGED <<animation_running, animation_thread, threads>>

\* the time left of a join after one more unit; a timeout that has passed
\* stays passed
elapsed(who) ==
    IF who.pc = "idle" THEN who
    ELSE [who EXCEPT !.timer = IF @ >= 0 THEN @ - 1 ELSE @]

\* the state the scheduler's calls leave alone
unscheduled == <<engine, writers, link, ports, lifecycle, presses, grid, routine>>

\* the caller's start_animation(animation_type)
StartAnimation(animation_type) ==
    /\ start_animation(caller, caller', animation_type)
    /\ UNCHANGED <<reader_call, unscheduled>>

\* the caller's stop_animation()
StopAnimation ==
    /\ stop_animation(caller, caller')
    /\ UNCHANGED <<reader_call, unscheduled>>

JoinDone == JoinOver(caller)

JoinReturn ==
    /\ join_return(caller, caller')
    /\ UNCHANGED <<reader_call, unscheduled>>

\* an observer, called by the reader, calls start_animation(animation_type)
ObserverStartAnimation(animation_type) ==
    /\ start_animation(reader_call, reader_call', animation_type)
    /\ UNCHANGED <<caller, unscheduled>>

\* an observer, called by the reader, calls stop_animation()
ObserverStopAnimation ==
    /\ stop_animation(reader_call, reader_call')
    /\ UNCHANGED <<caller, unscheduled>>

\* the join of the observer's call returns
ObserverJoinReturn ==
    /\ join_return(reader_call, reader_call')
    /\ UNCHANGED <<caller, unscheduled>>

\* a routine whose writes never raise
write_raises_never(output) == FALSE

\* set_pad_color in a routine: self.output_port.send(msg) raises once
\* cleanup has closed the port and set it to None; neither the routine nor
\* _run_animation catches the exception, which ends the thread
write_raises(output) == output # "open"

\* one step of a routine's thread
Step(t) ==
    /\ is_alive(t)
    /\ threads[t].sleep = 0
    /\ threads' =
         [threads EXCEPT ![t] =
            CASE Instr(t).op = "check" ->
                     IF animation_running THEN [@ EXCEPT !.pc = NextPc(t)] ELSE Finished
              [] Instr(t).op = "write" ->
                     IF write_raises(ports.output) THEN Finished
                     ELSE [@ EXCEPT !.pc = NextPc(t)]
              [] Instr(t).op = "sleep" -> [@ EXCEPT !.pc = NextPc(t), !.sleep = Instr(t).d]]
    /\ UNCHANGED <<animation_running, animation_thread, caller, engine, writers, link, extra>>

\* time passes while every thread sleeps and the joins, if any, still wait
Tick ==
    /\ Alive # {}
    /\ \A t \in Alive : threads[t].sleep >= 1
    /\ caller.pc # "idle" => ~JoinDone
    /\ reader_call.pc # "idle" => ~JoinOver(reader_call)
    /\ threads' = [t \in DOMAIN threads |->
                     IF threads[t].alive THEN [threads[t] EXCEPT !.sleep = @ - 1]
                     ELSE threads[t]]
    /\ caller' = elapsed(caller)
    /\ reader_call' = elapsed(reader_call)
    /\ UNCHANGED <<animation_running, animation_thread, unscheduled>>

SchedulerNext ==
    \/ \E animation_type \in AnimationType : StartAnimation(animation_type)
    \/ StopAnimation
    \/ JoinReturn
    \/ \E t \in DOMAIN threads : Step(t)
    \/ Tick

(***************************************************************************)
(* set_pad_color under concurrent callers: the store is replaced, then     *)
(* the message is sent, and nothing holds the two together.                *)
(***************************************************************************)
\* the contexts that write pads: the GUI, the reader (the press handler it
\* calls) and the animation routine
Contexts == {"caller", "reader", "animation"}

Outside == [pc |-> "outside", note |-> -1, color |-> "", channel |-> -1]

\* set_pad_color(note, color, channel) up to and including
\* self.led_states[note] = LedState(color=color)
Store(c, note, color, channel) ==
    /\ writers[c].pc = "outside"
    /\ 0 <= channel /\ channel <= 15
    /\ led_states' = Put(led_states, note, LedState(color))
    /\ writers' = [writers EXCEPT ![c] =
                     [pc |-> "stored", note |-> note, color |-> color, channel |-> channel]]
    /\ UNCHANGED <<device, toggle_states, buttons, last, pair, scheduler, link, extra>>

\* the rest of set_pad_color: self.output_port.send(...)
Send(c) ==
    /\ writers[c].pc = "stored"
    /\ device' = Put(device, writers[c].note,
                     [velocity |-> PadColor[writers[c].color], channel |-> writers[c].channel])
    /\ writers' = [writers EXCEPT ![c] = Outside]
    /\ UNCHANGED <<led_states, toggle_states, buttons, last, pair, scheduler, link, extra>>

WritersNext ==
    \/ \E c \in Contexts, note \in {0, 63}, color \in Palette :
           Store(c, note, color, DefaultChannel)
    \/ \E c \in Contexts : Send(c)

(***************************************************************************)
(* The reader (LedController._handle_input) and its observers              *)
(***************************************************************************)
\* the inbound messages the device sends
MaxMessages == 2

\* the observers a caller registers
Observers == {"dashboard", "monitor"}

\* the reader waiting in "for msg in self.input_port"
AtFor == [pc |-> "for", msg |-> <<>>, i |-> 0]

Range(seq) == {seq[i] : i \in DOMAIN seq}

Event(kind, msg, observer, ok) ==
    [kind |-> kind, msg |-> msg, observer |-> observer, ok |-> ok,
     callbacks |-> button_callbacks]

\* the number of messages the device has sent so far
Received == Cardinality({history[i].msg.id : i \in DOMAIN history}) + Len(input_port)

\* the device sends a message: it waits in the input port
Receive(type) ==
    /\ ports.input = "open"
    /\ Received < MaxMessages
    /\ input_port' = Append(input_port, [id |-> Received + 1, type |-> type, note |-> 0])
    /\ UNCHANGED <<running, loopback_port, button_callbacks, input_thread, history>>
    /\ UNCHANGED <<engine, scheduler, writers, extra>>

\* add_button_callback(callback)
AddButtonCallback(callback) ==
    /\ button_callbacks' = Append(button_callbacks, callback)
    /\ UNCHANGED <<running, loopback_port, input_port, input_thread, history>>
    /\ UNCHANGED <<engine, scheduler, writers, extra>>

\* where the loop body starts for a message: the forwarding, if there is a
\* loopback port
after_take_unforwarded(loopback) == "callbacks"

after_take(loopback) == IF loopback THEN "loopback" ELSE "callbacks"

\* the for loop over the callbacks without its step
next_callback_skipping(i) == i + 2

next_callback(i) == i + 1

\* the except clause ending the thread
after_except_exit(is_running) == "exited"

\* after the except clause: back to "while self.running"
after_except(is_running) == IF is_running THEN "for" ELSE "exited"

\* for msg in self.input_port: the next message, or an exception from the
\* port (malformed input, I/O error) that loses it
ReaderTake(ok) ==
    /\ input_thread.pc = "for"
    /\ ports.input = "open"
    /\ input_port # <<>>
    /\ input_port' = Tail(input_port)
    /\ IF ok
       THEN /\ input_thread' = [pc |-> after_take(loopback_port),
                                msg |-> Head(input_port), i |-> 1]
            /\ history' = Append(history, Event("take", Head(input_port), "", TRUE))
       ELSE /\ input_thread' = [pc |-> "except", msg |-> <<>>, i |-> 0]
            /\ history' = Append(history, Event("end", Head(input_port), "", FALSE))
    /\ UNCHANGED <<running, loopback_port, button_callbacks>>
    /\ UNCHANGED <<engine, scheduler, writers, extra>>

\* self.loopback_port.send(msg), which returns or raises; it raises when
\* cleanup has set the port to None since the if statement
ReaderForward(ok) ==
    /\ input_thread.pc = "loopback"
    /\ ok => loopback_port
    /\ IF ok
       THEN /\ input_thread' = [input_thread EXCEPT !.pc = "callbacks"]
            /\ history' = Append(history, Event("forward", input_thread.msg, "", TRUE))
       ELSE /\ input_thread' = [pc |-> "except", msg |-> <<>>, i |-> 0]
            /\ history' = Append(history, Event("end", input_thread.msg, "", FALSE))
    /\ UNCHANGED <<running, loopback_port, button_callbacks, input_port>>
    /\ UNCHANGED <<engine, scheduler, writers, extra>>

\* a raising callback caught inside the loop over the callbacks, which
\* goes on with the next one
raised_resumed(thread) == [thread EXCEPT !.i = @ + 1]

\* an exception inside the for statement leaves both loops for the except
\* clause
raised(thread) == [pc |-> "except", msg |-> <<>>, i |-> 0]

\* callback(msg) for the next callback of the list, which returns or raises
ReaderInvoke(ok) ==
    /\ input_thread.pc = "callbacks"
    /\ input_thread.i <= Len(button_callbacks)
    /\ LET invoked == Append(history, Event("invoke", input_thread.msg,
                                            button_callbacks[input_thread.i], ok))
       IN IF ok
          THEN /\ input_thread' = [input_thread EXCEPT !.i = next_callback(@)]
               /\ history' = invoked
          ELSE /\ input_thread' = raised(input_thread)
               /\ history' = Append(invoked, Event("end", input_thread.msg, "", FALSE))
    /\ UNCHANGED <<running, loopback_port, button_callbacks, input_port>>
    /\ UNCHANGED <<engine, scheduler, writers, extra>>

\* the callbacks are through: back to the for statement
ReaderDone ==
    /\ input_thread.pc = "callbacks"
    /\ input_thread.i > Len(button_callbacks)
    /\ input_thread' = AtFor
    /\ history' = Append(history, Event("end", input_thread.msg, "", TRUE))
    /\ UNCHANGED <<running, loopback_port, button_callbacks, input_port>>
    /\ UNCHANGED <<engine, scheduler, writers, extra>>

\* except Exception as e: print(...), then the while statement again
ReaderExcept ==
    /\ input_thread.pc = "except"
    /\ input_thread' = [AtFor EXCEPT !.pc = after_except(running)]
    /\ UNCHANGED <<running, loopback_port, button_callbacks, input_port, history>>
    /\ UNCHANGED <<engine, scheduler, writers, extra>>

\* for msg in self.input_port once cleanup has closed the port: the
\* iteration over the closed port ends, or the statement raises (the port
\* raises, or self.input_port is None already); a loop that ends leads to
\* the while statement like the except clause does
ReaderPortClosed(raises) ==
    /\ input_thread.pc = "for"
    /\ ports.input # "open"
    /\ input_thread' = [AtFor EXCEPT !.pc = IF raises THEN "except" ELSE after_except(running)]
    /\ UNCHANGED <<running, loopback_port, button_callbacks, input_port, history>>
    /\ UNCHANGED <<engine, scheduler, writers, extra>>

ReaderStep ==
    \/ \E ok \in BOOLEAN : ReaderTake(ok)
    \/ \E ok \in BOOLEAN : ReaderForward(ok)
    \/ \E ok \in BOOLEAN : ReaderInvoke(ok)
    \/ ReaderDone
    \/ ReaderExcept

ReaderNext ==
    \/ \E type \in {"note_on", "note_off"} : Receive(type)
    \/ \E callback \in Observers \ Range(button_callbacks) : AddButtonCallback(callback)
    \/ ReaderStep

(***************************************************************************)
(* Presses of a Toggle control from two contexts: the reader's thread      *)
(* (handle_midi_input) and the GUI's (on_button_click).  The handler's     *)
(* statements are steps of their own, with nothing to hold them together.  *)
(***************************************************************************)
\* the contexts that handle presses
Pressers == {"reader", "gui"}

\* the Track button pressed
PressedButton == 100

\* the presses a behaviour holds between two configurations of the button
MaxPresses == 3

\* a context outside the handler; bit and velocity are the handler's values
NotPressing == [pc |-> "outside", bit |-> FALSE, velocity |-> 0]

\* count: the presses handled since the button's bit was last reset
NoPresses == [count |-> 0, at |-> [c \in Pressers |-> NotPressing]]

\* on_button_click with the press-behaviour button checked: the button is
\* configured as the widgets say, painted, and its bit reset
PressConfigure(gui) ==
    LET r == configure(Ctl, toggle_states, PressedButton, gui)
    IN /\ \A c \in Pressers : presses.at[c] = NotPressing
       /\ gui.button_mode = "Toggle"
       /\ led_states' = r.st.led_states
       /\ device' = r.st.device
       /\ toggle_states' = r.ts
       /\ buttons' = Put(buttons, PressedButton, configured(gui))
       /\ last' = Call("on_button_click", PressedButton, "note_on", TRUE,
                       toggle_get(toggle_states, PressedButton), <<>>,
                       last.op = "on_clear_all", r.st)
       /\ pair' = PairAfter(TRUE, FALSE, PressedButton, r.st.out)
       /\ presses' = NoPresses
       /\ UNCHANGED <<scheduler, writers, link, ports, lifecycle, reader_call, grid, routine>>

\* a press reaches the Toggle branch of the handler, which evaluates
\* not self.toggle_states.get(note, False)
PressRead(c) ==
    /\ presses.at[c].pc = "outside"
    /\ presses.count < MaxPresses
    /\ button_of(PressedButton).press_behavior_enabled
    /\ button_of(PressedButton).button_mode = "Toggle"
    /\ presses' = [count |-> presses.count + 1,
                   at |-> [presses.at EXCEPT ![c] =
                             [pc |-> "read", bit |-> ~toggle_get(toggle_states, PressedButton),
                              velocity |-> 0]]]
    /\ UNCHANGED <<engine, scheduler, writers, link, ports, lifecycle, reader_call, grid, routine>>

\* self.toggle_states[note] = the value evaluated
PressWrite(c) ==
    /\ presses.at[c].pc = "read"
    /\ toggle_states' = Put(toggle_states, PressedButton, presses.at[c].bit)
    /\ presses' = [presses EXCEPT !.at[c].pc = "written"]
    /\ UNCHANGED <<led_states, device, buttons, last, pair>>
    /\ UNCHANGED <<scheduler, writers, link, ports, lifecycle, reader_call, grid, routine>>

\* if self.toggle_states[note]: velocity = 2 if is_blinking else 1
\* else: velocity = 0
PressTest(c) ==
    /\ presses.at[c].pc = "written"
    /\ presses' = [presses EXCEPT
                     !.at[c].pc = "tested",
                     !.at[c].velocity =
                         IF toggle_states[PressedButton]
                         THEN on_velocity(button_of(PressedButton).pressed_animation)
                         ELSE 0]
    /\ UNCHANGED <<engine, scheduler, writers, link, ports, lifecycle, reader_call, grid, routine>>

\* self.controller.set_button_color(ButtonType(note), velocity)
PressSend(c) ==
    /\ presses.at[c].pc = "tested"
    /\ device' = set_button_color(Ctl, PressedButton, presses.at[c].velocity).device
    /\ presses' = [presses EXCEPT !.at[c] = NotPressing]
    /\ UNCHANGED <<led_states, toggle_states, buttons, last, pair>>
    /\ UNCHANGED <<scheduler, writers, link, ports, lifecycle, reader_call, grid, routine>>

PressNext ==
    \/ \E b \in BehaviorChoices : PressConfigure(Gui(TRUE, b, GlobalDefault))
    \/ \E c \in Pressers : PressRead(c)
    \/ \E c \in Pressers : PressWrite(c)
    \/ \E c \in Pressers : PressTest(c)
    \/ \E c \in Pressers : PressSend(c)

(***************************************************************************)
(* The grid: _get_note and _get_row_col                                    *)
(***************************************************************************)
\* _get_row_col with the two components exchanged
_get_row_col_swapped(note) == <<note % 8, note \div 8>>

\* _get_row_col(note): (row, col) with col = note % 8 and row = note // 8
_get_row_col(note) == <<note \div 8, note % 8>>

\* _get_note(row, col)
_get_note(row, col) == row * 8 + col

NoConversion == [op |-> "", arg |-> <<>>, result |-> <<>>, back |-> <<>>]

\* a note is converted to its position and the position back to a note
GetRowCol(note) ==
    /\ grid' = [op |-> "_get_row_col", arg |-> <<note>>,
                result |-> _get_row_col(note),
                back |-> <<_get_note(_get_row_col(note)[1], _get_row_col(note)[2])>>]
    /\ UNCHANGED <<engine, scheduler, writers, link, ports, lifecycle, reader_call, presses, routine>>

\* a position is converted to its note and the note back to a position
GetNote(row, col) ==
    /\ grid' = [op |-> "_get_note", arg |-> <<row, col>>,
                result |-> <<_get_note(row, col)>>,
                back |-> _get_row_col(_get_note(row, col))]
    /\ UNCHANGED <<engine, scheduler, writers, link, ports, lifecycle, reader_call, presses, routine>>

GridNext ==
    \/ \E note \in Pads : GetRowCol(note)
    \/ \E row \in 0 .. 7, col \in 0 .. 7 : GetNote(row, col)

(***************************************************************************)
(* The routines' writes.  A routine runs on the thread start_animation     *)
(* starts; routine holds its position (pc) and its local variables.        *)
(***************************************************************************)
\* no routine has been started
NoRoutine ==
    [name |-> "", pc |-> "", head_pos |-> 0, color |-> "", snake |-> <<>>,
     direction |-> <<0, 0>>, i |-> 0, ticks |-> 0, turned |-> <<>>, spawned |-> {}]

Max(a, b) == IF a >= b THEN a ELSE b

\* a write of a routine: self.set_pad_color(note, color, channel)
PadWrite(note, color, channel) == [note |-> note, color |-> color, channel |-> channel]

\* the set_pad_color calls of a sequence of writes, in order; a call that
\* raises ends the routine
RECURSIVE set_pads(_, _)
set_pads(st, ws) ==
    IF ws = <<>> \/ st.err # "" THEN st
    ELSE set_pads(set_pad_color(st, Head(ws).note, Head(ws).color, Head(ws).channel),
                  Tail(ws))

\* start_animation(animation_type) on a controller no routine has run on
\* yet: animation_running = True, and the thread enters the routine, whose
\* locals get their first values
RunAnimation(locals) ==
    /\ routine = NoRoutine
    /\ ~animation_running
    /\ animation_running' = TRUE
    /\ routine' = locals
    /\ UNCHANGED <<engine, animation_thread, threads, caller, writers, link>>
    /\ UNCHANGED <<ports, lifecycle, reader_call, presses, grid>>

\* stop_animation(): animation_running = False
CancelAnimation ==
    /\ animation_running
    /\ animation_running' = FALSE
    /\ UNCHANGED <<engine, animation_thread, threads, caller, writers, link, extra>>

\* while self.animation_running: the routine reads the flag False and returns
RoutineReturn ==
    /\ routine.pc = "while"
    /\ ~animation_running
    /\ routine' = [routine EXCEPT !.pc = "returned"]
    /\ UNCHANGED <<engine, scheduler, writers, link>>
    /\ UNCHANGED <<ports, lifecycle, reader_call, presses, grid>>

\* what a step of a routine that writes leaves alone
routine_frame == <<toggle_states, buttons, scheduler, writers, link,
                   ports, lifecycle, reader_call, presses, grid>>

\* the step of a routine: its writes have led to st, its locals to locals
RoutineStep(st, locals) ==
    /\ led_states' = st.led_states
    /\ device' = st.device
    /\ last' = Call(routine.name, -1, "", FALSE, FALSE, <<>>, FALSE, st)
    /\ pair' = NoPair
    /\ routine' = locals
    /\ UNCHANGED routine_frame

(***************************************************************************)
(* _chase_animation                                                        *)
(***************************************************************************)
\* the trail drawn at full brightness
chase_brightness_flat(i) == 6

\* brightness = 6 - i; channel = max(1, brightness)
chase_brightness(i) == Max(1, 6 - i)

tail_length == 5

\* head_pos = 0; tail_length = 5; color = random.choice([RED, BLUE, GREEN])
ChaseLocals(color) ==
    [NoRoutine EXCEPT !.name = "CHASE", !.pc = "while", !.head_pos = 0, !.color = color]

\* one pass of the loop: the head and its tail, brightest first, the
\* position behind the tail switched off, head_pos advanced, time.sleep(0.05)
ChaseTick ==
    /\ routine.name = "CHASE"
    /\ routine.pc = "while"
    /\ animation_running
    /\ LET head_pos == routine.head_pos
           trail == [i \in 1 .. tail_length |->
                       PadWrite((head_pos - (i - 1)) % 64, routine.color,
                                chase_brightness(i - 1))]
           old_pos == (head_pos - tail_length) % 64
           st == set_pads(Ctl, Append(trail, PadWrite(old_pos, "OFF", DefaultChannel)))
       IN RoutineStep(st, [routine EXCEPT !.head_pos = (head_pos + 1) % 64,
                                          !.ticks = 1])

(***************************************************************************)
(* _snake_animation, statement by statement                                *)
(***************************************************************************)
\* 0 <= new_head[0] < 8 and 0 <= new_head[1] < 8
InGrid(pos) == 0 <= pos[1] /\ pos[1] < 8 /\ 0 <= pos[2] /\ pos[2] < 8

\* new_head = (head[0] + direction[0], head[1] + direction[1])
new_head(snake, direction) ==
    <<snake[Len(snake)][1] + direction[1], snake[Len(snake)][2] + direction[2]>>

\* right -> down -> left -> up -> right
turn(direction) ==
    IF direction = <<0, 1>> THEN <<1, 0>>
    ELSE IF direction = <<1, 0>> THEN <<0, -1>>
    ELSE IF direction = <<0, -1>> THEN <<-1, 0>>
    ELSE <<0, 1>>

\* the snake never shortened
untrimmed(snake) == snake

\* if len(snake) > 5: snake.pop(0)
trimmed(snake) == IF Len(snake) > 5 THEN Tail(snake) ELSE snake

\* snake = [(0, 0)]; direction = (0, 1)
SnakeLocals ==
    [NoRoutine EXCEPT !.name = "SNAKE", !.pc = "while", !.snake = <<(<<0, 0>>)>>,
                      !.direction = <<0, 1>>]

\* the head moves: at a wall the direction turns and the pass is over
\* (continue); otherwise the new head is appended and the snake trimmed
SnakeMove ==
    /\ routine.name = "SNAKE"
    /\ routine.pc = "while"
    /\ animation_running
    /\ LET head == new_head(routine.snake, routine.direction)
       IN routine' =
            IF ~InGrid(head)
            THEN [routine EXCEPT !.direction = turn(@), !.turned = head]
            ELSE [routine EXCEPT !.snake = trimmed(Append(@, head)), !.pc = "clear",
                                 !.turned = <<>>]
    /\ UNCHANGED <<engine, scheduler, writers, link>>
    /\ UNCHANGED <<ports, lifecycle, reader_call, presses, grid>>

\* self.clear_all()
SnakeClear ==
    /\ routine.name = "SNAKE"
    /\ routine.pc = "clear"
    /\ RoutineStep(clear_all(Ctl), [routine EXCEPT !.pc = "draw", !.i = 1])

\* for i, pos in enumerate(snake): the head RED, the rest DARK_RED; after
\* the last cell time.sleep(0.1) and the next pass
SnakeDraw ==
    /\ routine.name = "SNAKE"
    /\ routine.pc = "draw"
    /\ LET pos == routine.snake[routine.i]
           note == pos[1] * 8 + pos[2]
           color == IF routine.i = Len(routine.snake) THEN "RED" ELSE "DARK_RED"
           st == set_pad_color(Ctl, note, color, DefaultChannel)
       IN RoutineStep(st, IF routine.i = Len(routine.snake)
                          THEN [routine EXCEPT !.pc = "while", !.i = 0, !.ticks = 1]
                          ELSE [routine EXCEPT !.i = @ + 1])

SnakeNext ==
    \/ RunAnimation(SnakeLocals)
    \/ SnakeMove
    \/ SnakeClear
    \/ SnakeDraw
    \/ CancelAnimation
    \/ RoutineReturn

(***************************************************************************)
(* _rain_animation, pass by pass                                           *)
(***************************************************************************)
\* state_current and state_current.color != PadColor.OFF
Lit(store, note) == note \in DOMAIN store /\ store[note].color # "OFF"

\* the rows visited from the bottom one up
rain_rows_upward == <<1, 2, 3, 4, 5, 6, 7>>

\* for row in range(7, 0, -1)
rain_rows == <<7, 6, 5, 4, 3, 2, 1>>

\* for col in range(8), in one row: each lit pad of the row is drawn one row
\* down, on channel max(1, 6 - (7 - row)), and switched off.  The pads of
\* a row do not depend on one another, so the writes of the row are those
\* of the columns lit when the row is reached
rain_row(st, row) ==
    LET lit == SelectSeq([c \in 1 .. 8 |-> c - 1],
                         LAMBDA col : Lit(st.led_states, _get_note(row, col)))
        writes == [k \in 1 .. 2 * Len(lit) |->
                     IF k % 2 = 1
                     THEN PadWrite(_get_note(row - 1, lit[(k + 1) \div 2]), "LIGHT_BLUE",
                                   Max(1, 6 - (7 - row)))
                     ELSE PadWrite(_get_note(row, lit[k \div 2]), "OFF", DefaultChannel)]
    IN set_pads(st, writes)

RECURSIVE rain_fall(_, _)
rain_fall(st, rows) ==
    IF rows = <<>> \/ st.err # "" THEN st
    ELSE rain_fall(rain_row(st, Head(rows)), Tail(rows))

RainLocals == [NoRoutine EXCEPT !.name = "RAIN", !.pc = "while"]

\* one pass of the loop: three droplets in random columns of the top row,
\* the rows from the top one down, time.sleep(0.1)
RainTick(cols) ==
    /\ routine.name = "RAIN"
    /\ routine.pc = "while"
    /\ animation_running
    /\ LET drops == [k \in 1 .. 3 |->
                      PadWrite(_get_note(7, cols[k]), "LIGHT_BLUE", DefaultChannel)]
           st == rain_fall(set_pads(Ctl, drops), rain_rows)
       IN RoutineStep(st, [routine EXCEPT !.ticks = 1, !.spawned = Range(cols)])

\* the pad another context lights between two passes of the routine
RainOtherPad == 26

\* the columns random.randint(0, 7) is taken to return: the left-most, the
\* right-most and two between them
RainColumns == {0, 3, 5, 7}

ChaseNext ==
    \/ \E color \in {"RED", "BLUE", "GREEN"} : RunAnimation(ChaseLocals(color))
    \/ ChaseTick
    \/ CancelAnimation
    \/ RoutineReturn


(***************************************************************************)
(* The lifecycle of the link: __init__ and cleanup                         *)
(***************************************************************************)
\* the close calls cleanup makes, in its order
Closes == <<"input", "output", "loopback">>

\* the calls of cleanup a behaviour holds
MaxCleanups == 2

\* the record of a call of __init__ or cleanup: where the call is ("" once
\* it has returned or raised), the exception it raised, the closes that
\* raised in it, running, the ports and the loopback port as the call found
\* them, whether the call before was a cleanup that returned normally, the
\* outcomes of __init__'s two opens, whether __init__ returned normally, the
\* number of cleanup calls, whether a loopback name was given to __init__
\* and whether its open succeeded, and whether a routine's thread was alive
\* when cleanup was called
NoCall ==
    [op |-> "", pc |-> "", err |-> "", failed |-> {}, before |-> <<>>,
     after_ok |-> FALSE, opened |-> <<>>, constructed |-> FALSE, calls |-> 0,
     loopback |-> <<FALSE, FALSE>>, animating |-> FALSE]

\* the reader thread before input_thread.start()
NotStarted == [pc |-> "unstarted", msg |-> <<>>, i |-> 0]

\* cleanup leaving the attribute as it is after close()
released_kept(port) == port

\* self.input_port = None (likewise output_port, loopback_port) after close()
released(port) == "none"

\* cleanup leaving self.running as it is
cleanup_flag_kept(is_running) == is_running

\* self.running = False
cleanup_flag(is_running) == FALSE

\* __init__'s except clause re-raising without cleanup()
after_open_error_unclosed(p, close_ok) == p

\* the ports after the cleanup() of __init__'s except clause: the input port,
\* if it was opened, is closed and set to None unless close() raises
after_open_error(p, close_ok) ==
    [p EXCEPT !.input = IF @ = "open" /\ close_ok THEN released(@) ELSE @]

\* hasattr(self, 'x_port') and self.x_port
is_open(port) == IF port = "loopback" THEN loopback_port ELSE ports[port] = "open"

\* self.loopback_port set though mido.open_output(loopback_name) raised
open_loopback_unchecked(loopback_name, loopback_ok) == loopback_name

\* self.loopback_port = None; if loopback_name: try: self.loopback_port =
\* mido.open_output(loopback_name) except: print -- whether the attribute
\* holds a port afterwards
open_loopback(loopback_name, loopback_ok) == loopback_name /\ loopback_ok

\* __init__(input_name, output_name, loopback_name): the two opens succeed or
\* raise, the loopback port opens or not (its failure is only printed), and
\* the close() of the except clause's cleanup() succeeds or raises
Construct(input_ok, output_ok, loopback_name, loopback_ok, close_ok) ==
    LET opened == [input |-> IF input_ok THEN "open" ELSE "unset", output |-> "unset"]
        closed == after_open_error(opened, close_ok)
    IN /\ lifecycle.op = ""
       /\ IF input_ok /\ output_ok
          THEN /\ ports' = [input |-> "open", output |-> "open"]
               /\ loopback_port' = open_loopback(loopback_name, loopback_ok)
               /\ running' = TRUE
               /\ input_thread' = AtFor
               /\ lifecycle' = [NoCall EXCEPT
                                  !.op = "__init__", !.opened = <<TRUE, TRUE>>,
                                  !.constructed = TRUE,
                                  !.loopback = <<loopback_name, loopback_name /\ loopback_ok>>]
          ELSE /\ ports' = closed
               /\ running' = cleanup_flag(running)
               /\ lifecycle' = [NoCall EXCEPT
                                  !.op = "__init__",
                                  !.opened = <<input_ok, input_ok /\ output_ok>>,
                                  !.err = IF input_ok /\ ~close_ok THEN "close" ELSE "open",
                                  !.failed = IF input_ok /\ ~close_ok THEN {"input"} ELSE {}]
               /\ UNCHANGED <<loopback_port, input_thread>>
       /\ UNCHANGED <<button_callbacks, input_port, history>>
       /\ UNCHANGED <<engine, scheduler, writers, reader_call, presses, grid, routine>>

\* cleanup() is called: self.running = False
CleanupBegin ==
    /\ lifecycle.op # ""
    /\ lifecycle.pc = ""
    /\ lifecycle.calls < MaxCleanups
    /\ running' = cleanup_flag(running)
    /\ lifecycle' = [lifecycle EXCEPT
                       !.op = "cleanup", !.pc = Closes[1], !.err = "", !.failed = {},
                       !.before = <<running, ports, loopback_port>>,
                       !.after_ok = (lifecycle.op = "cleanup" /\ lifecycle.err = ""),
                       !.calls = @ + 1,
                       !.animating = (Alive # {})]
    /\ UNCHANGED <<loopback_port, button_callbacks, input_port, input_thread, history>>
    /\ UNCHANGED <<engine, scheduler, writers, ports, reader_call, presses, grid, routine>>

\* the statement after the close of port k: the next close, or the return
after_close(k) == IF k < Len(Closes) THEN Closes[k + 1] ELSE ""

\* if hasattr(self, 'x_port') and self.x_port: self.x_port.close();
\* self.x_port = None -- close() returns or raises, and nothing catches it
CleanupClose(ok) ==
    /\ lifecycle.op = "cleanup"
    /\ lifecycle.pc # ""
    /\ LET k == CHOOSE i \in DOMAIN Closes : Closes[i] = lifecycle.pc
           port == Closes[k]
       IN IF ~is_open(port)
          THEN /\ ok
               /\ lifecycle' = [lifecycle EXCEPT !.pc = after_close(k)]
               /\ UNCHANGED <<ports, loopback_port>>
          ELSE IF ok
          THEN /\ lifecycle' = [lifecycle EXCEPT !.pc = after_close(k)]
               /\ IF port = "loopback"
                  THEN /\ loopback_port' = (released("open") = "open")
                       /\ UNCHANGED ports
                  ELSE /\ ports' = [ports EXCEPT ![port] = released(@)]
                       /\ UNCHANGED loopback_port
          ELSE /\ lifecycle' = [lifecycle EXCEPT !.pc = "", !.err = "close",
                                                 !.failed = {port}]
               /\ UNCHANGED <<ports, loopback_port>>
    /\ UNCHANGED <<running, button_callbacks, input_port, input_thread, history>>
    /\ UNCHANGED <<engine, scheduler, writers, reader_call, presses, grid, routine>>

(***************************************************************************)
(* Spec: the calls on a connected controller, one at a time                *)
(***************************************************************************)
\* the state that does not depend on how __init__ went
Blank ==
    /\ led_states = Empty
    /\ device = Empty
    /\ toggle_states = Empty
    /\ buttons = Empty
    /\ last = Call("init", -1, "", FALSE, FALSE, <<>>, FALSE, Ctl)
    /\ pair = NoPair
    /\ animation_running = FALSE
    /\ animation_thread = 0
    /\ threads = Empty
    /\ caller = Idle("init")
    /\ writers = [c \in Contexts |-> Outside]
    /\ button_callbacks = <<>>
    /\ input_port = <<>>
    /\ history = <<>>
    /\ reader_call = Idle("init")
    /\ presses = NoPresses
    /\ grid = NoConversion
    /\ routine = NoRoutine

\* the state LedController.__init__ and Dashboard.__init__ leave, with or
\* without a loopback port
Constructed(loopback_name) ==
    /\ ports = [input |-> "open", output |-> "open"]
    /\ Blank
    /\ running = TRUE
    /\ loopback_port = loopback_name
    /\ input_thread = AtFor
    /\ lifecycle = [NoCall EXCEPT !.op = "__init__", !.opened = <<TRUE, TRUE>>,
                                  !.constructed = TRUE,
                                  !.loopback = <<loopback_name, loopback_name>>]

\* before LedController(...) is called: no attribute is set and no thread
\* is started
Unconstructed ==
    /\ ports = [input |-> "unset", output |-> "unset"]
    /\ Blank
    /\ running = FALSE
    /\ loopback_port = FALSE
    /\ input_thread = NotStarted
    /\ lifecycle = NoCall

\* the dashboard's default: "Kein Loopback"
Init == Constructed(FALSE)

\* controller.set_pad_color(note, color, channel), called directly
SetPadColor(note, color, channel) ==
    LET st == set_pad_color(Ctl, note, color, channel)
    IN /\ led_states' = st.led_states
       /\ device' = st.device
       /\ last' = Call("set_pad_color", note, "", FALSE, FALSE, <<color, channel>>, FALSE, st)
       /\ pair' = NoPair
       /\ UNCHANGED <<toggle_states, buttons, others>>

\* controller.set_button_color(button, velocity), called directly
SetButtonColor(button, velocity) ==
    LET st == set_button_color(Ctl, button, velocity)
    IN /\ led_states' = st.led_states
       /\ device' = st.device
       /\ last' = Call("set_button_color", button, "", FALSE, FALSE, <<velocity>>, FALSE, st)
       /\ pair' = NoPair
       /\ UNCHANGED <<toggle_states, buttons, others>>

\* Dashboard.on_clear_all()
OnClearAll ==
    LET st == clear_all(Ctl)
    IN /\ led_states' = st.led_states
       /\ device' = st.device
       /\ last' = Call("on_clear_all", -1, "", FALSE, FALSE, <<>>, FALSE, st)
       /\ pair' = NoPair
       /\ UNCHANGED <<toggle_states, buttons, others>>

\* Dashboard.on_button_click(note)
OnButtonClick(note, gui) ==
    LET r == IF gui.checked THEN configure(Ctl, toggle_states, note, gui)
             ELSE click(Ctl, toggle_states, note, gui)
    IN /\ led_states' = r.st.led_states
       /\ device' = r.st.device
       /\ toggle_states' = r.ts
       /\ buttons' = IF gui.checked THEN Put(buttons, note, configured(gui))
                     ELSE buttons
       /\ last' = Call("on_button_click", note, "note_on", gui.checked,
                       toggle_get(toggle_states, note), <<>>,
                       last.op = "on_clear_all", r.st)
       /\ pair' = PairAfter(gui.checked, ~gui.checked /\ IsToggleControl(note),
                            note, r.st.out)
       /\ UNCHANGED others

\* Dashboard.handle_midi_input(msg), the observer the reader calls
HandleMidiInput(type, note) ==
    LET r == handle_midi_input(Ctl, toggle_states, type, note)
    IN /\ led_states' = r.st.led_states
       /\ device' = r.st.device
       /\ toggle_states' = r.ts
       /\ last' = Call("handle_midi_input", note, type, FALSE,
                       toggle_get(toggle_states, note), <<>>,
                       last.op = "on_clear_all", r.st)
       /\ pair' = PairAfter(FALSE, type = "note_on" /\ note \in Pads \cup ButtonNotes
                                   /\ IsToggleControl(note), note, r.st.out)
       /\ UNCHANGED <<buttons, others>>

Next ==
    \/ \E note \in WrittenPads, color \in Palette, channel \in Channels :
           SetPadColor(note, color, channel)
    \/ \E button \in WrittenButtons, velocity \in 0 .. 2 :
           SetButtonColor(button, velocity)
    \/ OnClearAll
    \/ \E note \in Controls, gui \in GuiStates : OnButtonClick(note, gui)
    \/ \E type \in {"note_on", "note_off", "control_change"},
          note \in Controls \cup OtherNotes : HandleMidiInput(type, note)

Spec == Init /\ [][Next]_vars


SchedulerSpec == Init /\ [][SchedulerNext]_vars

WritersSpec == Init /\ [][WritersNext]_vars

\* the link from before its construction to after its cleanup, with the
\* reader running and the caller writing
LifecycleNext ==
    \/ \E input_ok, output_ok, loopback_name, loopback_ok, close_ok \in BOOLEAN :
           Construct(input_ok, output_ok, loopback_name, loopback_ok, close_ok)
    \/ CleanupBegin
    \/ \E ok \in BOOLEAN : CleanupClose(ok)
    \/ lifecycle.constructed /\ Receive("note_on")
    \/ lifecycle.constructed /\ button_callbacks = <<>> /\ AddButtonCallback("dashboard")
    \/ ReaderStep
    \/ \E raises \in BOOLEAN : ReaderPortClosed(raises)
    \/ lifecycle.constructed /\ SetPadColor(0, "RED", DefaultChannel)
    \/ lifecycle.constructed /\ SetButtonColor(100, 1)

LifecycleSpec == Unconstructed /\ [][LifecycleNext]_vars

\* the reader thread is scheduled, its observers return, and a cleanup that
\* has been called runs on
LifecycleLiveSpec ==
    /\ LifecycleSpec
    /\ WF_vars(ReaderStep \/ \E raises \in BOOLEAN : ReaderPortClosed(raises))
    /\ WF_vars(\E ok \in BOOLEAN : CleanupClose(ok))

\* cleanup() called on a controller whose routines run
ClosingNext ==
    \/ \E animation_type \in {"CHASE", "FIREWORK"} : StartAnimation(animation_type)
    \/ JoinReturn
    \/ \E t \in DOMAIN threads : Step(t)
    \/ Tick
    \/ CleanupBegin
    \/ \E ok \in BOOLEAN : CleanupClose(ok)

ClosingSpec == Init /\ [][ClosingNext]_vars

\* the routines' threads are scheduled, time passes, the join returns when
\* it is over and a cleanup that has been called runs on
ClosingLiveSpec ==
    /\ ClosingSpec
    /\ WF_vars(Tick)
    /\ WF_vars(JoinReturn)
    /\ \A t \in 1 .. MaxThreads : WF_vars(Step(t))
    /\ WF_vars(\E ok \in BOOLEAN : CleanupClose(ok))

\* the scheduler with its threads scheduled, time passing and the join
\* returning when it is over
SchedulerLiveSpec ==
    /\ SchedulerSpec
    /\ WF_vars(Tick)
    /\ WF_vars(JoinReturn)
    /\ \A t \in 1 .. MaxThreads : WF_vars(Step(t))

\* the reader is inside an observer
InObserver ==
    /\ input_thread.pc = "callbacks"
    /\ input_thread.i <= Len(button_callbacks)

\* the combined system: the caller starting animations, the routines'
\* threads, and the reader whose observer writes a pad and starts and stops
\* animations itself; the reader goes on when the observer's call has
\* returned
CombinedNext ==
    \/ StartAnimation("FIREWORK")
    \/ JoinReturn
    \/ \E t \in DOMAIN threads : Step(t)
    \/ Tick
    \/ reader_call.pc = "idle" /\ ReaderInvoke(TRUE)
    \/ reader_call.pc = "idle" /\ ReaderDone
    \/ InObserver /\ ObserverStartAnimation("CHASE")
    \/ InObserver /\ ObserverStopAnimation
    \/ ObserverJoinReturn
    \/ InObserver /\ reader_call.pc = "idle" /\ SetPadColor(0, "RED", DefaultChannel)

\* the reader has taken a message and is about to call the one observer
CombinedInit ==
    /\ ports = [input |-> "open", output |-> "open"]
    /\ led_states = Empty
    /\ device = Empty
    /\ toggle_states = Empty
    /\ buttons = Empty
    /\ last = Call("init", -1, "", FALSE, FALSE, <<>>, FALSE, Ctl)
    /\ pair = NoPair
    /\ animation_running = FALSE
    /\ animation_thread = 0
    /\ threads = Empty
    /\ caller = Idle("init")
    /\ writers = [c \in Contexts |-> Outside]
    /\ running = TRUE
    /\ loopback_port = FALSE
    /\ button_callbacks = <<"dashboard">>
    /\ input_port = <<>>
    /\ input_thread = [pc |-> "callbacks",
                       msg |-> [id |-> 1, type |-> "note_on", note |-> 0], i |-> 1]
    /\ history = <<[kind |-> "take", msg |-> [id |-> 1, type |-> "note_on", note |-> 0],
                    observer |-> "", ok |-> TRUE, callbacks |-> <<"dashboard">>]>>
    /\ lifecycle = [NoCall EXCEPT !.op = "__init__", !.opened = <<TRUE, TRUE>>,
                                  !.constructed = TRUE]
    /\ reader_call = Idle("init")
    /\ presses = NoPresses
    /\ grid = NoConversion
    /\ routine = NoRoutine

CombinedSpec == CombinedInit /\ [][CombinedNext]_vars

\* the threads are scheduled, a join that is over returns, and time passes:
\* calls that return at once do not hold it up for ever
CombinedLiveSpec ==
    /\ CombinedSpec
    /\ SF_vars(Tick)
    /\ WF_vars(JoinReturn)
    /\ WF_vars(ObserverJoinReturn)
    /\ \A t \in 1 .. MaxThreads : WF_vars(Step(t))

PressSpec == Init /\ [][PressNext]_vars

GridSpec == Init /\ [][GridNext]_vars

\* the Chase routine on a controller just constructed
ChaseSpec == Init /\ [][ChaseNext]_vars

\* the Snake routine on a controller just constructed
SnakeSpec == Init /\ [][SnakeNext]_vars

RainNext ==
    \/ RunAnimation(RainLocals)
    \/ \E c1, c2, c3 \in RainColumns : RainTick(<<c1, c2, c3>>)
    \/ routine.name = "RAIN" /\ SetPadColor(RainOtherPad, "RED", DefaultChannel)
    \/ CancelAnimation
    \/ RoutineReturn

\* the Rain routine on a controller just constructed, and a pad lit by
\* another context between its passes
RainSpec == Init /\ [][RainNext]_vars

ReaderInit == \E loopback_name \in BOOLEAN : Constructed(loopback_name)

ReaderSpec == ReaderInit /\ [][ReaderNext]_vars

\* the reader is a thread of its own: it is scheduled again and again
ReaderLiveSpec == ReaderSpec /\ WF_vars(ReaderStep)

(***************************************************************************)
(* Properties of the animation scheduler (under SchedulerSpec)             *)
(***************************************************************************)
\* C1: at any moment at most one animation routine is executing: starting
\* an animation while one runs stops the running one first.
C1_AtMostOneRoutine == Cardinality(Alive) <= 1

\* thread t takes a step that writes LEDs
WriteStep(t) ==
    /\ is_alive(t)
    /\ threads[t].sleep = 0
    /\ Instr(t).op = "write"
    /\ threads'[t] # threads[t]

\* C2: once stop_animation has returned, and until an animation is started
\* again, no animation routine performs a further LED write, whichever
\* routine was running.
C2_NoWriteAfterStop ==
    [][(caller = Idle("stop_animation") /\ caller' = caller)
         => \A t \in DOMAIN threads : ~WriteStep(t)]_vars

(***************************************************************************)
(* Properties of concurrent pad writes (under WritersSpec)                 *)
(***************************************************************************)
\* C3: with pad writes made from several contexts at once, when no write is
\* in progress the store entry of every pad written equals the last message
\* the device received for that pad.
C3_StoreEqualsLastMessage ==
    (\A c \in Contexts : writers[c] = Outside)
        => \A note \in DOMAIN device :
               /\ note \in DOMAIN led_states
               /\ PadColor[led_states[note].color] = device[note].velocity

(***************************************************************************)
(* Properties of the LED writes and of the press handlers (under Spec)     *)
(***************************************************************************)
\* C4: a pad write whose channel is outside 0..15 is rejected: it raises,
\* sends no message and leaves the store (and the device) as they were.
C4_InvalidChannelRejected ==
    [][(last'.op = "set_pad_color" /\ ~(last'.args[2] \in 0 .. 15))
         => /\ last'.err = "ValueError"
            /\ last'.out = <<>>
            /\ led_states' = led_states
            /\ device' = device]_vars

\* a write on channel 16 has just been rejected while pad 0 held RED
C4_Witness ==
    /\ last.op = "set_pad_color"
    /\ last.args[2] = 16
    /\ last.err = "ValueError"
    /\ 0 \in DOMAIN led_states
    /\ led_states[0].color = "RED"
    /\ last.args[1] = "BLUE"

\* C5: set_pad_color(n, c, ch) with ch in 0..15 sends exactly one note-on
\* with note n, velocity the value of c, on channel ch; afterwards the store
\* entry of n holds c.
C5_ValidWriteSendsOne ==
    (last.op = "set_pad_color" /\ last.args[2] \in 0 .. 15)
        => /\ last.err = ""
           /\ last.out = <<Msg(last.note, PadColor[last.args[1]], last.args[2])>>
           /\ last.note \in DOMAIN led_states
           /\ led_states[last.note].color = last.args[1]

\* BLUE (velocity 45) has just been written to pad 0 on channel 15
C5_Witness ==
    /\ last.op = "set_pad_color"
    /\ last.args = <<"BLUE", 15>>
    /\ last.out = <<Msg(0, 45, 15)>>
    /\ led_states[0].color = "BLUE"

\* C6: for each of the 64 pads and 16 buttons, the store entry of a control
\* equals the (color, channel) of the last successful write to it.
C6_StoreHoldsColorAndChannel ==
    \A a \in DOMAIN device :
        /\ a \in DOMAIN led_states
        /\ PadColor[led_states[a].color] = device[a].velocity
        /\ "channel" \in DOMAIN led_states[a]
        /\ led_states[a].channel = device[a].channel

\* C7: after clear-all every pad and every button reads from the store as
\* OFF on channel 0.
C7_ClearAllStoresOff ==
    last.op = "on_clear_all"
        => \A a \in Pads \cup ButtonNotes :
               /\ a \in DOMAIN led_states
               /\ led_states[a].color = "OFF"
               /\ "channel" \in DOMAIN led_states[a]
               /\ led_states[a].channel = 0

\* a press: a note-on from the device or a click without configuring
IsPress(call) ==
    \/ call.op = "handle_midi_input" /\ call.type = "note_on"
    \/ call.op = "on_button_click" /\ ~call.checked

\* the message a control in Toggle mode is configured to show with its bit at on
ConfiguredMessage(note, on) ==
    LET b == button_of(note)
    IN IF IsTrackOrScene(note)
       THEN Msg(note, IF on THEN on_velocity(b.pressed_animation) ELSE 0, 0)
       ELSE IF on
       THEN Msg(note, PadColor[b.pressed_color],
                initial_channel(b.pressed_animation, b.pressed_brightness))
       ELSE Msg(note, PadColor[b.unpressed_color],
                initial_channel(b.unpressed_animation, b.unpressed_brightness))

\* C8: clear-all also resets the toggle table: every bit is false after it,
\* and the next press on a control in Toggle mode writes the pressed state
\* (compared here by its color; its channel is the subject of C10).
C8_ClearAllResetsToggles ==
    /\ last.op = "on_clear_all"
           => \A note \in DOMAIN toggle_states : ~toggle_states[note]
    /\ (IsPress(last) /\ last.after_clear /\ last.note \in Controls
            /\ IsToggleControl(last.note))
           => /\ toggle_get(toggle_states, last.note)
              /\ Len(last.out) = 1
              /\ last.out[1].velocity = ConfiguredMessage(last.note, TRUE).velocity

\* C9: in Toggle mode two consecutive presses on a control return it to
\* exactly the color and channel it displayed before the first press.
C9_TwoPressesRestore ==
    pair.count = 2 => Shown(device, pair.note) = pair.before

\* C10: in Toggle mode a press flips the bit of the control and writes the
\* configured pressed or unpressed (color, channel) tuple according to the
\* new bit; a release changes nothing.
C10_TogglePressWritesConfigured ==
    (last.note \in Controls /\ IsToggleControl(last.note))
        => /\ IsPress(last)
               => /\ toggle_get(toggle_states, last.note) = ~last.bit
                  /\ last.out = <<ConfiguredMessage(last.note, ~last.bit)>>
           /\ (last.op = "handle_midi_input" /\ last.type = "note_off")
               => /\ toggle_get(toggle_states, last.note) = last.bit
                  /\ last.out = <<>>

IsFlashControl(note) ==
    button_of(note).press_behavior_enabled /\ button_of(note).button_mode = "Flash"

IsRelease(call) == call.op = "handle_midi_input" /\ call.type = "note_off"

\* C11: for a control in Flash mode a press writes the configured pressed
\* (color, channel) tuple and the release after it the configured unpressed
\* tuple; neither changes the toggle bit of the control.
C11_FlashWritesConfigured ==
    (last.note \in Controls /\ IsFlashControl(last.note))
        => /\ IsPress(last)
               => /\ last.out = <<ConfiguredMessage(last.note, TRUE)>>
                  /\ toggle_get(toggle_states, last.note) = last.bit
           /\ IsRelease(last)
               => /\ last.out = <<ConfiguredMessage(last.note, FALSE)>>
                  /\ toggle_get(toggle_states, last.note) = last.bit

\* C12: for a Track/Scene button in Toggle mode the successive presses from
\* a reset bit send velocity 2, 0, 2, 0, ... (1 instead of 2 when the pressed
\* animation has no blink marker) on the button's note and channel 0: a
\* press with the bit false sends 2 (or 1) and sets the bit, a press with
\* the bit true sends 0 and resets it.
C12_ButtonToggleVelocities ==
    (IsPress(last) /\ IsTrackOrScene(last.note) /\ IsToggleControl(last.note))
        => /\ toggle_get(toggle_states, last.note) = ~last.bit
           /\ last.out =
                <<Msg(last.note,
                      IF last.bit THEN 0
                      ELSE IF ContainsBlinken(button_of(last.note).pressed_animation)
                           THEN 2 ELSE 1,
                      0)>>

\* the second press of a run on Track 1, configured with a blinking pressed
\* animation, has just sent velocity 0 after the first one sent 2
C12_Witness ==
    /\ pair = [note |-> 100, count |-> 2, before |-> [velocity |-> 0, channel |-> 0]]
    /\ button_of(100).pressed_animation = "Blinken 1/2"
    /\ last.bit
    /\ last.out = <<Msg(100, 0, 0)>>

\* C13: every message the press handlers, the synthetic click and clear-all
\* send to a Track or Scene button note is on channel 0 with a velocity in
\* {0, 1, 2}.
C13_ButtonMessages ==
    last.op \in {"on_button_click", "handle_midi_input", "on_clear_all"}
        => \A i \in 1 .. Len(last.out) :
               last.out[i].note \in ButtonNotes
                   => last.out[i].channel = 0 /\ last.out[i].velocity \in {0, 1, 2}

\* a press from the device has just switched Track 1 to blinking
C13_Witness ==
    /\ last.op = "handle_midi_input"
    /\ last.out = <<Msg(100, 2, 0)>>
    /\ device[100] = [velocity |-> 2, channel |-> 0]

\* what the global selection g writes to a control
GlobalMessage(note, g) ==
    IF IsTrackOrScene(note)
    THEN Msg(note, IF g.color = "OFF" THEN 0
                   ELSE IF g.animation \in 5 .. 9 THEN 2 ELSE 1, 0)
    ELSE Msg(note, PadColor[g.color],
             IF g.animation = 0 THEN g.brightness ELSE 6 + g.animation)

GlobalWrites(note) == {<<GlobalMessage(note, g)>> : g \in GlobalChoices}

IsDisabled(note) == note \in Controls /\ ~button_of(note).press_behavior_enabled

\* C14: a press on a control whose behaviour is disabled writes no pressed
\* or unpressed tuple (it sends nothing, or what the global selection says)
\* and leaves the toggle table unchanged.
C14_DisabledPressNoBehaviorWrite ==
    [][(IsPress(last') /\ IsDisabled(last'.note))
         => /\ toggle_states' = toggle_states
            /\ last'.out = <<>> \/ last'.out \in GlobalWrites(last'.note)]_vars

\* a press from the device on the unconfigured pad 0 has sent nothing while
\* Track 1 stays toggled on
C14_Witness ==
    /\ last.op = "handle_midi_input" /\ last.type = "note_on" /\ last.note = 0
    /\ IsDisabled(0)
    /\ last.out = <<>>
    /\ 100 \in DOMAIN toggle_states /\ toggle_states[100]

\* C15: for a control whose behaviour is disabled every press, from the
\* device or from the GUI, results in a write of the global selection to
\* that control.
C15_DisabledPressWritesGlobal ==
    (IsPress(last) /\ IsDisabled(last.note))
        => last.out \in GlobalWrites(last.note)

\* C16: applying a behaviour config to a control whose toggle bit is true
\* sends no message for that control.
C16_ReconfigureNoWrite ==
    (last.op = "on_button_click" /\ last.checked /\ last.bit)
        => last.out = <<>>

\* C17: applying a behaviour config to a control, in Toggle or in Flash
\* mode, resets the toggle bit of that control to false.
C17_ReconfigureResetsBit ==
    (last.op = "on_button_click" /\ last.checked)
        => ~toggle_get(toggle_states, last.note)

(***************************************************************************)
(* Properties of the reader (under ReaderSpec and ReaderLiveSpec)          *)
(***************************************************************************)
\* the observers the reader has invoked with message k, in order
Observed(k) ==
    LET OfK(e) == e.kind = "invoke" /\ e.msg.id = k
        invokes == SelectSeq(history, OfK)
    IN [i \in DOMAIN invokes |-> invokes[i].observer]

IsPrefix(short, long) ==
    Len(short) <= Len(long) /\ \A i \in DOMAIN short : short[i] = long[i]

\* the reader has finished with message k, with or without a failure
Handled(k) == \E i \in DOMAIN history : history[i].kind = "end" /\ history[i].msg.id = k

\* message k waits in the input port
Pending(k) == \E i \in DOMAIN input_port : input_port[i].id = k

\* C18: with a loopback port every inbound message is forwarded to it
\* unmodified before any observer is invoked with that message.
C18_ForwardedBeforeObservers ==
    loopback_port
        => \A i \in DOMAIN history :
               (history[i].kind = "invoke" \/ (history[i].kind = "end" /\ history[i].ok))
                   => \E j \in 1 .. i - 1, t \in 1 .. i - 1 :
                          /\ t < j
                          /\ history[t].kind = "take"
                          /\ history[j].kind = "forward"
                          /\ history[j].msg = history[t].msg
                          /\ history[j].msg = history[i].msg

\* with a loopback port, the second of two observers has been invoked
C18_Witness ==
    /\ loopback_port
    /\ Len(button_callbacks) = 2
    /\ \E i \in DOMAIN history :
           history[i].kind = "invoke" /\ history[i].observer = button_callbacks[2]

\* the messages are handled one after the other: nothing is done with a
\* message once anything was done with a later one
OneAtATime ==
    \A i, j \in DOMAIN history : i < j => history[i].msg.id <= history[j].msg.id

\* C19: for every inbound message every registered observer is invoked
\* exactly once, in registration order, and the next message is not
\* dispatched before all observers of the current one have returned.
C19_EveryObserverOnce ==
    /\ OneAtATime
    /\ \A i \in DOMAIN history :
           history[i].kind = "end"
               => Observed(history[i].msg.id) = history[i].callbacks

\* C19, amended: for every inbound message whose handling does not fail
\* every registered observer is invoked exactly once, in registration order;
\* when the handling fails the observers invoked are the first ones of the
\* registration order, each once; and the next message is not dispatched
\* before the reader has finished with the current one.
C19_EveryObserverOnceUnlessFailed ==
    /\ OneAtATime
    /\ \A i \in DOMAIN history :
           history[i].kind = "end"
               => IF history[i].ok
                  THEN Observed(history[i].msg.id) = history[i].callbacks
                  ELSE IsPrefix(Observed(history[i].msg.id), history[i].callbacks)

\* the second message has been handled without a failure by two observers
\* registered as monitor, dashboard
C19_Witness ==
    \E i \in DOMAIN history :
        /\ history[i].kind = "end" /\ history[i].ok
        /\ history[i].msg.id = 2
        /\ history[i].callbacks = <<"monitor", "dashboard">>
        /\ Observed(2) = <<"monitor", "dashboard">>

\* C20: a failure while one inbound message is processed never ends the
\* reader: while running is set the thread has not left _handle_input, and
\* every message that waits in the input port is handled in its turn.
C20_ReaderSurvivesFailures ==
    /\ [](running => input_thread.pc # "exited")
    /\ \A k \in 1 .. MaxMessages : Pending(k) ~> Handled(k)

\* the handling of the first message failed and the second message has
\* reached an observer
C20_Witness ==
    /\ \E i \in DOMAIN history :
           history[i].kind = "end" /\ ~history[i].ok /\ history[i].msg.id = 1
    /\ Observed(2) # <<>>

\* C33: when the handling of an inbound message fails part-way (the
\* passthrough send raises, or an observer raises), nothing more is done
\* with that message: the observers registered after the failing one never
\* receive it, and none receives it when the passthrough send failed; the
\* messages handled without a failure reach every registered observer.
C33_FailureSkipsRest ==
    \A i \in DOMAIN history :
        history[i].kind = "end" =>
            LET k == history[i].msg.id
                at_observer == i > 1 /\ history[i - 1].kind = "invoke"
                                     /\ history[i - 1].msg.id = k
            IN IF history[i].ok
               THEN Observed(k) = history[i].callbacks
               ELSE /\ \A j \in DOMAIN history : j > i => history[j].msg.id # k
                    /\ at_observer =>
                           /\ ~history[i - 1].ok
                           /\ IsPrefix(Observed(k), history[i].callbacks)
                           /\ Observed(k)[Len(Observed(k))] = history[i - 1].observer
                           /\ \A j \in 1 .. i - 2 :
                                  (history[j].kind = "invoke" /\ history[j].msg.id = k)
                                      => history[j].ok
                    /\ ~at_observer => Observed(k) = <<>>

\* the first of two observers raised on the first message, which the second
\* observer never received, and both have received the second message
C33_Witness ==
    \E i, j \in DOMAIN history :
        /\ history[i].kind = "end" /\ ~history[i].ok /\ history[i].msg.id = 1
        /\ Len(history[i].callbacks) = 2
        /\ Observed(1) = <<history[i].callbacks[1]>>
        /\ history[j].kind = "end" /\ history[j].ok /\ history[j].msg.id = 2
        /\ Len(Observed(2)) = 2

(***************************************************************************)
(* Properties of the grid conversions (under GridSpec)                     *)
(***************************************************************************)
\* C29: for every pad i in 0..63, converting i to (row, col) and back gives
\* i; for every row, col in 0..7, converting (row, col) to a note and back
\* gives (row, col); the note is row*8+col, so row 0 holds the notes 0..7.
C29_GridRoundTrip ==
    /\ grid.op = "_get_row_col"
           => /\ grid.back = grid.arg
              /\ grid.result[1] \in 0 .. 7 /\ grid.result[2] \in 0 .. 7
              /\ grid.arg[1] = grid.result[1] * 8 + grid.result[2]
    /\ grid.op = "_get_note"
           => /\ grid.back = grid.arg
              /\ grid.result[1] = grid.arg[1] * 8 + grid.arg[2]
              /\ grid.result[1] \in Pads
              /\ grid.arg[1] = 0 <=> grid.result[1] \in 0 .. 7

\* pad 10 has been converted to row 1, column 2 and back
C29_Witness ==
    /\ grid.op = "_get_row_col"
    /\ grid.arg = <<10>>
    /\ grid.result = <<1, 2>>
    /\ grid.back = <<10>>

(***************************************************************************)
(* Properties of the link's lifecycle (under LifecycleSpec)                *)
(***************************************************************************)
\* a call of cleanup has returned or raised
CleanupOver == lifecycle.op = "cleanup" /\ lifecycle.pc = ""

\* input, output and passthrough are released
Released == ~is_open("input") /\ ~is_open("output") /\ ~is_open("loopback")

\* the reader runs no more (or never ran)
ReaderStopped == input_thread.pc \in {"exited", "unstarted"}

C23_CleanupNeverRaises ==
    CleanupOver =>
        /\ lifecycle.err = ""
        /\ \A port \in Range(Closes) : is_open(port) => port \in lifecycle.failed

\* C21: a call of cleanup() made after a call of cleanup() that returned
\* returns without an error and leaves running, the ports and the loopback
\* port as the call before left them: input, output and passthrough
\* released and the reader flagged to stop.
C21_CleanupIdempotent ==
    (CleanupOver /\ lifecycle.after_ok) =>
        /\ lifecycle.err = ""
        /\ <<running, ports, loopback_port>> = lifecycle.before
        /\ Released
        /\ ~running

\* a second cleanup of a link constructed with a loopback port has returned
C21_Witness ==
    /\ CleanupOver
    /\ lifecycle.after_ok
    /\ lifecycle.constructed
    /\ lifecycle.calls = 2
    /\ lifecycle.before = <<FALSE, [input |-> "none", output |-> "none"], FALSE>>

\* C24: once the output port has been released, a pad or button write
\* raises at once and sends no message.
C24_WriteAfterCloseFails ==
    (last.op \in {"set_pad_color", "set_button_color"} /\ last.output # "open") =>
        /\ last.err # ""
        /\ last.out = <<>>

\* a pad write after a cleanup that released the output port has raised
C24_Witness ==
    /\ last.op = "set_pad_color"
    /\ last.output = "none"
    /\ last.err = "AttributeError"
    /\ CleanupOver
    /\ device = Empty

\* C32: set_pad_color replaces the store's entry before it sends: a call
\* whose send raises leaves the entry of its note with the new color and
\* the device as it was, so the entry is of a color the device was not sent.
C32_FailedSendKeepsEntry ==
    [][(last' # last /\ last'.op = "set_pad_color" /\ last'.err = "AttributeError")
          => /\ last'.note \in DOMAIN led_states'
             /\ led_states'[last'.note] = LedState(last'.args[1])
             /\ device' = device
             /\ last'.out = <<>>]_vars

\* a pad write whose send raised has left an entry for a pad the device
\* was never sent a message for
C32_Witness ==
    /\ last.op = "set_pad_color"
    /\ last.err = "AttributeError"
    /\ last.note \in DOMAIN led_states
    /\ led_states[last.note].color = "RED"
    /\ last.note \notin DOMAIN device

\* C35: when a loopback name is given and opening the loopback port fails,
\* __init__ still returns normally with the input and the output port open
\* and the reader running, and from then on no inbound message is forwarded:
\* the messages go to the observers only.
C35_LoopbackOpenFailure ==
    (lifecycle.constructed /\ lifecycle.loopback = <<TRUE, FALSE>>) =>
        /\ lifecycle.op = "__init__" =>
               /\ lifecycle.err = ""
               /\ ports = [input |-> "open", output |-> "open"]
               /\ running
               /\ ~ReaderStopped
        /\ ~loopback_port
        /\ \A i \in DOMAIN history :
               /\ history[i].kind # "forward"
               /\ (history[i].kind = "end" /\ history[i].ok)
                      => Observed(history[i].msg.id) = history[i].callbacks

\* the loopback port could not be opened, and a message has been handled
\* by the registered observer without having been forwarded
C35_Witness ==
    /\ lifecycle.constructed
    /\ lifecycle.loopback = <<TRUE, FALSE>>
    /\ lifecycle.op = "__init__"
    /\ \E i \in DOMAIN history :
           /\ history[i].kind = "end" /\ history[i].ok
           /\ Len(Observed(history[i].msg.id)) = 1

\* C25: when opening the input or the output port fails, __init__ raises, no
\* reader thread is started and no port is left open (but one whose close()
\* itself raised in the except clause's cleanup).
C25_FailedOpenLeavesNothing ==
    (lifecycle.op = "__init__" /\ lifecycle.opened # <<TRUE, TRUE>>) =>
        /\ lifecycle.err # ""
        /\ ~lifecycle.constructed
        /\ input_thread = NotStarted
        /\ ~running
        /\ \A port \in Range(Closes) : is_open(port) => port \in lifecycle.failed

\* the output port could not be opened and the input port, already open,
\* has been closed
C25_Witness ==
    /\ lifecycle.op = "__init__"
    /\ lifecycle.opened = <<TRUE, FALSE>>
    /\ lifecycle.err = "open"
    /\ ports.input = "none"
    /\ input_thread = NotStarted

(***************************************************************************)
(* Properties of the routines' cancellation (under SchedulerSpec)          *)
(***************************************************************************)
\* C26: every animation routine reads the cancellation flag at least once
\* between any two consecutive frame delays, so a running routine has never
\* begun two frame delays since it last read the flag.
C26_CheckedEveryFrame ==
    \A t \in Alive : FramesSinceCheck(t) <= 1

\* C27: stop_animation() always returns: a call that waits for the routine's
\* thread returns in the end, its wait never exceeds the join's timeout
\* whatever the routine does, and with no thread ever started it returns at
\* once having changed nothing.
C27_StopAlwaysReturns ==
    /\ (caller.pc = "stop_join") ~> (caller.pc = "idle")
    /\ [](Joining(caller) => caller.timer \in 0 .. JoinTimeout)
    /\ []((caller.returned = "stop_animation" /\ threads = Empty)
            => (caller.pc = "idle" /\ animation_thread = 0 /\ ~animation_running))

\* the join of a stop_animation() call has timed out with the routine
\* still running
C27_Witness ==
    /\ caller.pc = "stop_join"
    /\ caller.timer = 0
    /\ is_alive(caller.thread)

(***************************************************************************)
(* Properties of cleanup under running routines (under ClosingLiveSpec)    *)
(***************************************************************************)
\* C34: when cleanup() is called while a routine's thread is alive, the
\* routine does not go on on the closed link: every routine's thread has
\* terminated in the end, although no step of cleanup() clears
\* animation_running or waits for the thread.  The claim is about cleanup
\* calls whose close() calls succeed: a call in which a close() raised is
\* the case of C23.
C34_CleanupEndsRoutine ==
    /\ (lifecycle.op = "cleanup" /\ lifecycle.animating)
          ~> (lifecycle.failed # {} \/ Alive = {})
    /\ [][(lifecycle' # lifecycle)
            => UNCHANGED <<animation_running, animation_thread, threads, caller>>]_vars

\* cleanup was called while the routine ran and has returned; the flag is
\* still set and the routine's thread has terminated
C34_Witness ==
    /\ CleanupOver
    /\ lifecycle.err = ""
    /\ lifecycle.animating
    /\ animation_running
    /\ caller.pc = "idle"
    /\ animation_thread = 1
    /\ DOMAIN threads = {1}
    /\ ~is_alive(1)

(***************************************************************************)
(* Properties of the routines (under ChaseSpec, RainSpec, SnakeSpec)       *)
(***************************************************************************)
\* the position the Chase routine drew its head at in its last pass
ChaseHead == (routine.head_pos - 1) % 64

\* C38: in the Chase routine the head advances by exactly one position per
\* pass around the ring 0..63 (63 wraps to 0); after each pass the five
\* positions head, head-1, ..., head-4 (mod 64) are lit in the routine's
\* color with the channels 6, 5, 4, 3, 2 and position head-5 (mod 64) is OFF.
C38_ChaseTrail ==
    /\ [](routine.name = "CHASE" /\ routine.ticks > 0 =>
            /\ \A i \in 0 .. 4 :
                   LET pos == (ChaseHead - i) % 64
                   IN /\ pos \in DOMAIN led_states /\ pos \in DOMAIN device
                      /\ led_states[pos].color = routine.color
                      /\ device[pos] = [velocity |-> PadColor[routine.color],
                                        channel |-> 6 - i]
            /\ LET old_pos == (ChaseHead - 5) % 64
               IN /\ old_pos \in DOMAIN led_states /\ old_pos \in DOMAIN device
                  /\ led_states[old_pos].color = "OFF"
                  /\ device[old_pos].velocity = PadColor["OFF"])
    /\ [][(routine.name = "CHASE" /\ routine'.head_pos # routine.head_pos)
            => routine'.head_pos = IF routine.head_pos = 63 THEN 0
                                   ELSE routine.head_pos + 1]_vars

\* the head has gone round the ring: it was drawn at position 1 after
\* position 63, whose pad still shows the tail
C38_Witness ==
    /\ routine.name = "CHASE"
    /\ ChaseHead = 1
    /\ 63 \in DOMAIN device
    /\ device[63].channel = 4
    /\ 2 \in DOMAIN led_states
    /\ led_states[2].color = "OFF"

\* C37: at the end of every pass of the Rain routine no pad of the rows
\* 1..7 is lit in the store: every droplet spawned in the top row, and every
\* pad of the rows 1..7 lit before the pass, has been carried down to row 0
\* within the pass, and the routine never switches off a lit pad of row 0.
C37_RainReachesBottom ==
    /\ [](last.op = "RAIN" =>
            /\ \A note \in 8 .. 63 : ~Lit(led_states, note)
            /\ \A col \in routine.spawned : Lit(led_states, _get_note(0, col)))
    /\ [][(last'.op = "RAIN") =>
            /\ \A note \in 8 .. 63 :
                   Lit(led_states, note) => Lit(led_states', _get_note(0, note % 8))
            /\ \A col \in 0 .. 7 :
                   Lit(led_states, _get_note(0, col)) => Lit(led_states', _get_note(0, col))
            /\ \A k \in DOMAIN last'.out :
                   last'.out[k].note \in 0 .. 7 => last'.out[k].velocity # PadColor["OFF"]]_vars

\* a pass has carried the pad another context lit in row 3 and a droplet
\* of column 5 down to row 0, where the pad of an earlier droplet is
\* still lit
C37_Witness ==
    /\ last.op = "RAIN"
    /\ routine.spawned = {5}
    /\ Lit(led_states, 5)
    /\ Lit(led_states, RainOtherPad % 8)
    /\ RainOtherPad \in DOMAIN led_states
    /\ led_states[RainOtherPad].color = "OFF"
    /\ Lit(led_states, 7)
    /\ device[7].channel = 1

\* two cells of the grid next to each other in a row or in a column
Adjacent(a, b) ==
    LET dr == a[1] - b[1]
        dc == a[2] - b[2]
    IN dr * dr + dc * dc = 1

\* C39: in the Snake routine the trail never exceeds 5 cells, every cell of
\* the trail lies inside the 8x8 grid, consecutive cells of the trail are
\* adjacent in the grid, and the direction changes only when the next head
\* position would leave the grid.
C39_SnakeTrail ==
    /\ [](routine.name = "SNAKE" =>
            /\ Len(routine.snake) \in 1 .. 5
            /\ \A k \in DOMAIN routine.snake : InGrid(routine.snake[k])
            /\ \A k \in 1 .. Len(routine.snake) - 1 :
                   Adjacent(routine.snake[k], routine.snake[k + 1]))
    /\ [][(routine.name = "SNAKE" /\ routine'.direction # routine.direction)
            => /\ ~InGrid(new_head(routine.snake, routine.direction))
               /\ routine'.snake = routine.snake]_vars

\* the snake, five cells long, has turned at the corner (0, 7) and lies
\* around it
C39_Witness ==
    /\ routine.name = "SNAKE"
    /\ routine.direction = <<1, 0>>
    /\ routine.snake = <<(<<0, 5>>), (<<0, 6>>), (<<0, 7>>), (<<1, 7>>), (<<2, 7>>)>>
    /\ routine.pc = "while"

\* the names of the routines modelled statement by statement or pass by pass
Routines == {"CHASE", "RAIN", "SNAKE"}

\* C31: the routines write to the pads 0..63 only: no step of a routine
\* sends a message to a Track or Scene button.
C31_RoutinesWritePadsOnly ==
    (last.op \in Routines) =>
        \A k \in DOMAIN last.out : ~IsTrackOrScene(last.out[k].note)

\* C36: every write of a routine of integer arithmetic is to a note in
\* 0..63 on a channel in 0..15, and none is rejected for its channel.
C36_RoutineWritesInRange ==
    (last.op \in Routines) =>
        /\ last.err # "ValueError"
        /\ \A k \in DOMAIN last.out :
               /\ last.out[k].note \in Pads
               /\ last.out[k].channel \in 0 .. 15

(***************************************************************************)
(* Properties of the combined system (under CombinedLiveSpec)              *)
(***************************************************************************)
\* C28: no state of the combined system is a deadlock: a context that waits
\* for a routine's thread -- the caller, or an observer running on the
\* reader's context that starts or stops an animation -- always gets on.
C28_NoDeadlock ==
    /\ Joining(caller) ~> (caller.pc = "idle")
    /\ Joining(reader_call) ~> (reader_call.pc = "idle")

\* the caller and an observer on the reader's context wait for the same
\* routine at once
C28_Witness ==
    /\ InObserver
    /\ Joining(reader_call)
    /\ Joining(caller)
    /\ caller.thread = reader_call.thread
    /\ is_alive(caller.thread)

(***************************************************************************)
(* Properties of concurrent presses (under PressSpec)                      *)
(***************************************************************************)
\* C30: with physical presses (on the reader's context) and synthetic
\* clicks (on the GUI's) of one Toggle control interleaved in any way, no
\* press is lost: when no handler is running, the toggle bit is true iff the
\* number of presses since the last reset is odd, and the last message sent
\* for the control is the one of the bit's state.
C30_NoPressLost ==
    ((\A c \in Pressers : presses.at[c] = NotPressing) /\ presses.count > 0) =>
        /\ toggle_get(toggle_states, PressedButton) <=> (presses.count % 2 = 1)
        /\ Shown(device, PressedButton).velocity =
              IF toggle_get(toggle_states, PressedButton)
              THEN on_velocity(button_of(PressedButton).pressed_animation)
              ELSE 0

====
